---- MODULE Spec2Model ----
(***************************************************************************)
(* A model of the Nocturnal Eye frame-to-event pipeline:                   *)
(*   - ObjectTracker / TrackedObject      (src/src/tracker.py)             *)
(*   - DetectionFilter                    (src/src/detection_filter.py)    *)
(*   - NatureDocumentaryClient            (src/src/nature_doc_client.py)   *)
(*   - NocturnalEye.run, the driver loop  (src/main.py)                    *)
(*                                                                         *)
(* A datetime is an integer number of seconds; hour and minute of a        *)
(* datetime are taken from it as datetime.hour and datetime.minute do.     *)
(* Python's None is the value NONE where an Optional[int] is held.         *)
(***************************************************************************)
EXTENDS Integers, Sequences, FiniteSets, TLC

VARIABLES
    \* ---- ObjectTracker ----
    tracked_objects,   \* ObjectTracker.tracked_objects : track id -> TrackedObject
    next_track_id,     \* ObjectTracker.next_track_id
    now,               \* the timestamp given to the latest update call
    last,              \* the latest update call: its events, return value and what it did
    allocated,         \* history: every track id ever allocated, in allocation order
    cycles,            \* number of update calls made so far
    fed,               \* number of motion events fed to update so far
    stationary,        \* the latest get_stationary_objects call and its result
    replay,            \* history: the calls of a first tracker, fed again to a second
    \* ---- ZoneAnalyzer ----
    zones,             \* ZoneAnalyzer.zones
    zone_call,         \* the latest ZoneAnalyzer call: its arguments and results
    \* ---- MotionDetector ----
    md,                \* the MotionDetector object
    detect_call,       \* the latest detect_motion call: its frame and result
    \* ---- StreamConsumer ----
    sc,                \* the StreamConsumer object: its configuration and self.capture
    conn,              \* the connect() call: where it is, its locals and what it did
    \* ---- DetectionFilter ----
    df,                \* the DetectionFilter object
    query,             \* the latest should_publish_detection call and its result
    next_active,       \* the latest get_next_active_time call and its result
    \* ---- NatureDocumentaryClient ----
    client,            \* the client object: enabled, _frame_size and the cooldown state
    posts,             \* the bodies given to self._session.post, in order
    pub,               \* the latest publish_events call: its arguments and outcome
    pub_clock,         \* current_time of the latest publish_events call
    pub_calls,         \* number of publish_events calls made so far
    pub_fed,           \* number of events given to publish_events so far
    \* ---- NocturnalEye.run ----
    run_pc,            \* where run() is: "init", "loop", "done" or "crashed"
    running,           \* NocturnalEye.running
    clock,             \* datetime.now()
    frame_count,       \* the local frame_count of run()
    batch_events,      \* the local batch_events of run()
    db,                \* the batches given to Database.insert_motion_events_batch
    detected,          \* history: every event detect_motion returned, in order
    shutdowns,         \* number of shutdown() calls
    \* ---- SnapshotManager ----
    sm,                \* the SnapshotManager object
    snapshot_dir,      \* static/snapshots: the images with their mtime, the metadata files
    save_call,         \* the latest save_snapshot call: its time, arguments and result
    \* ---- Database.get_activity_histogram ----
    motion_events_table, \* the timestamps of the rows of motion_events
    hist,              \* the latest get_activity_histogram call and its result
    \* ---- NotificationTrigger ----
    nt,                \* the NotificationTrigger object
    notify_call,       \* the latest send_gecko_detection_notification call
    delivered          \* history: the calls that returned True, with their times

tracker_vars ==
    <<tracked_objects, next_track_id, now, last, allocated, cycles, fed, stationary,
      replay>>

zone_vars == <<zones, zone_call>>

detector_vars == <<md, detect_call>>

stream_vars == <<sc, conn>>

filter_vars == <<df, query, next_active>>

natdoc_vars == <<client, posts, pub, pub_clock, pub_calls, pub_fed>>

run_vars == <<run_pc, running, clock, frame_count, batch_events, db, detected, shutdowns>>

snapshot_vars == <<sm, snapshot_dir, save_call>>

histogram_vars == <<motion_events_table, hist>>

notify_vars == <<nt, notify_call, delivered>>

vars ==
    <<tracker_vars, filter_vars, natdoc_vars, run_vars, zone_vars, detector_vars,
      stream_vars, snapshot_vars, histogram_vars, notify_vars>>

--------------------------------------------------------------------------
(* Bounds of the model *)

\* update calls in one behaviour
MaxCycles == 3
\* attempts on the main stream in one connect() call
MaxAttempts == 4
\* update calls of the first of two trackers fed the same input
MaxReplayCycles == 2
\* motion events fed to the first of two trackers fed the same input
MaxReplayEvents == 3
\* update calls in one behaviour of a gecko sitting still
MaxStillCycles == 31
\* zones configured
MaxZones == 2
\* positions given to one ZoneAnalyzer call
MaxPositions == 2
\* frames given to detect_motion in one behaviour
MaxDetectFrames == 2
\* contours found in one frame
MaxContours == 2
\* motion events fed to the tracker in one behaviour
MaxEvents == 3
\* length of a configured time string
MaxStrLen == 4
\* publish_events calls in one behaviour
MaxPublishes == 3
\* events given to publish_events in one behaviour
MaxPubEvents == 3
\* frames the stream yields to run() in one behaviour
MaxFrames == 3

\* save_snapshot calls of one behaviour
MaxSaves == 3

\* rows of motion_events
MaxStoredEvents == 2

\* send_gecko_detection_notification calls of one behaviour
MaxNotifyCalls == 3

--------------------------------------------------------------------------
(* Values *)

\* Optional[int] = None
NONE == -1

\* config['tracking'].get('max_tracking_distance', 100)
max_tracking_distance == 100

\* self.inactive_timeout = timedelta(seconds=10)
inactive_timeout == 10

\* `if dist < 10:  # pixels` in TrackedObject.update
StationaryPixels == 10

\* Centroids the detector reports.  <<3,4>> is 5 px from the origin, <<6,8>> is
\* exactly 10 px from it, <<60,80>> exactly 100 px from it and 95 px from <<3,4>>.
Centroids == { <<0, 0>>, <<3, 4>>, <<6, 8>>, <<60, 80>> }

\* Contour area reported with each centroid.
AreaOf(c) == 1000 + 100 * c[1]

\* Seconds between one update call and the next; wall-clock time (naive
\* datetime.now()) may also step back.
Deltas == << 10, 11, -1 >>

\* MotionEvent as the detector creates it: track_id is left None.
MotionEvent(ts, c, a) ==
    [timestamp |-> ts, centroid |-> c, area |-> a, track_id |-> NONE]

\* All sequences over S of length at most n.
SeqsUpTo(S, n) == UNION { [1..k -> S] : k \in 0..n }

\* The elements of a list.
Range(s) == { s[i] : i \in 1..Len(s) }

\* The larger of two numbers.
Max(a, b) == IF a >= b THEN a ELSE b

--------------------------------------------------------------------------
(* TrackedObject *)

\* scipy.spatial.distance.euclidean, squared: on integer pixel coordinates
\* dist < d  iff  Dist2 < d*d.
Dist2(p, q) == (p[1] - q[1]) * (p[1] - q[1]) + (p[2] - q[2]) * (p[2] - q[2])

LastOf(s) == s[Len(s)]

\* A new track that is not active before its first match.
NewTrackedObjectInactive(id, centroid, area, timestamp) ==
    [track_id |-> id, first_seen |-> timestamp, last_seen |-> timestamp,
     positions |-> <<centroid>>, areas |-> <<area>>,
     is_active |-> FALSE, stationary_count |-> 0]

\* The dataclass constructor call in ObjectTracker.update.
NewTrackedObject(id, centroid, area, timestamp) ==
    [track_id |-> id, first_seen |-> timestamp, last_seen |-> timestamp,
     positions |-> <<centroid>>, areas |-> <<area>>,
     is_active |-> TRUE, stationary_count |-> 0]

\* An update that also counts a move of exactly StationaryPixels as stationary.
TrackedObjectUpdateInclusive(obj, centroid, area, timestamp) ==
    LET positions == Append(obj.positions, centroid)
        n == Len(positions)
        count == IF n >= 2
                 THEN IF Dist2(positions[n - 1], positions[n])
                           <= StationaryPixels * StationaryPixels
                      THEN obj.stationary_count + 1
                      ELSE 0
                 ELSE obj.stationary_count
    IN  [obj EXCEPT !.positions = positions,
                    !.areas = Append(obj.areas, area),
                    !.last_seen = timestamp,
                    !.stationary_count = count]

\* TrackedObject.update
TrackedObjectUpdate(obj, centroid, area, timestamp) ==
    LET positions == Append(obj.positions, centroid)
        n == Len(positions)
        count == IF n >= 2
                 THEN IF Dist2(positions[n - 1], positions[n])
                           < StationaryPixels * StationaryPixels
                      THEN obj.stationary_count + 1
                      ELSE 0
                 ELSE obj.stationary_count
    IN  [obj EXCEPT !.positions = positions,
                    !.areas = Append(obj.areas, area),
                    !.last_seen = timestamp,
                    !.stationary_count = count]

--------------------------------------------------------------------------
(* ObjectTracker *)

\* Iteration order of the tracked_objects dict: insertion order.  Keys are
\* inserted with increasing next_track_id and a deleted key is never inserted
\* again, so insertion order is ascending id order.
RECURSIVE IterationOrder(_)
IterationOrder(ids) ==
    IF ids = {} THEN <<>>
    ELSE LET m == CHOOSE x \in ids : \A y \in ids : x <= y
         IN  <<m>> \o IterationOrder(ids \ {m})

\* A comparison that lets a later track at the same distance take the match.
CloserOrEqual(d2, min_d2, best) ==
    /\ d2 < max_tracking_distance * max_tracking_distance
    /\ (best = NONE \/ d2 <= min_d2)

\* A comparison that accepts a track at exactly the association distance.
CloserWithinInclusive(d2, min_d2, best) ==
    /\ d2 <= max_tracking_distance * max_tracking_distance
    /\ (best = NONE \/ d2 < min_d2)

\* The comparison that accepts a track as the new best match.
Closer(d2, min_d2, best) ==
    /\ d2 < max_tracking_distance * max_tracking_distance
    /\ (best = NONE \/ d2 < min_d2)

\* The inner loop of update: the closest existing track, or NONE.
\* min_d2 is meaningful only once best # NONE (float('inf') before).
RECURSIVE FindClosest(_, _, _, _, _)
FindClosest(tracks, ids, centroid, min_d2, best) ==
    IF ids = <<>> THEN best
    ELSE LET obj == tracks[Head(ids)]
         IN  IF obj.positions = <<>>
             THEN FindClosest(tracks, Tail(ids), centroid, min_d2, best)
             ELSE LET d2 == Dist2(centroid, LastOf(obj.positions))
                  IN  IF Closer(d2, min_d2, best)
                      THEN FindClosest(tracks, Tail(ids), centroid, d2, Head(ids))
                      ELSE FindClosest(tracks, Tail(ids), centroid, min_d2, best)

\* What the matching loop does with one event whose best match is `best`.
ApplyMatch(tracks, best, event, timestamp) ==
    [tracks EXCEPT ![best] =
        [TrackedObjectUpdate(@, event.centroid, event.area, timestamp)
            EXCEPT !.is_active = TRUE]]

\* The matching loop over motion_events, from event i on.  acc holds the
\* tracks, the unmatched events and, per event, the id it was matched to.
RECURSIVE MatchEvents(_, _, _, _)
MatchEvents(acc, events, i, timestamp) ==
    IF i > Len(events) THEN acc
    ELSE LET event == events[i]
             best == FindClosest(acc.tracks, IterationOrder(DOMAIN acc.tracks),
                                 event.centroid, 0, NONE)
         IN  IF best # NONE
             THEN MatchEvents(
                    [acc EXCEPT !.tracks = ApplyMatch(acc.tracks, best, event, timestamp),
                                !.match_log = Append(@, best)],
                    events, i + 1, timestamp)
             ELSE MatchEvents(
                    [acc EXCEPT !.unmatched = Append(@, event),
                                !.match_log = Append(@, NONE)],
                    events, i + 1, timestamp)

\* A tracker that hands out the lowest id no live track holds.
NewTrackIdLowestFree(tracks, next_id) ==
    CHOOSE id \in 1..next_id : id \notin DOMAIN tracks /\ \A k \in 1..(id - 1) : k \in DOMAIN tracks

\* The id given to the next new track: self.next_track_id.
NewTrackId(tracks, next_id) == next_id

\* The loop creating a track per unmatched event.
RECURSIVE CreateTracks(_, _, _, _)
CreateTracks(acc, unmatched, i, timestamp) ==
    IF i > Len(unmatched) THEN acc
    ELSE LET id == NewTrackId(acc.tracks, acc.next_track_id)
             new_track == NewTrackedObject(id, unmatched[i].centroid,
                                           unmatched[i].area, timestamp)
         IN  CreateTracks(
                [tracks |-> [k \in DOMAIN acc.tracks \cup {id} |->
                                IF k = id THEN new_track ELSE acc.tracks[k]],
                 next_track_id |-> acc.next_track_id + 1,
                 created |-> Append(acc.created, id)],
                unmatched, i + 1, timestamp)

\* A cleanup that already removes a track exactly inactive_timeout old.
TooOldInclusive(obj, current_time) == current_time - obj.last_seen >= inactive_timeout

\* The test of _cleanup_inactive_tracks.
TooOld(obj, current_time) == current_time - obj.last_seen > inactive_timeout

\* A cleanup that removes nothing.
CleanupSkipped(tracks, current_time) == tracks

\* ObjectTracker._cleanup_inactive_tracks
CleanupInactiveTracks(tracks, current_time) ==
    [k \in {id \in DOMAIN tracks : ~TooOld(tracks[id], current_time)} |-> tracks[k]]

\* The list comprehension update returns (and get_active_tracks).
ActiveTracks(tracks) ==
    SelectSeq(IterationOrder(DOMAIN tracks), LAMBDA id : tracks[id].is_active)

\* An update that forgets to clear the flags.
MarkInactiveSkipped(tracks) == tracks

\* The first loop of update.
MarkInactive(tracks) ==
    [k \in DOMAIN tracks |-> [tracks[k] EXCEPT !.is_active = FALSE]]

\* ObjectTracker.update: the tracker after the call, the value returned, the
\* events as the call leaves them, and a record of what the call did.
TrackerUpdate(tracks, next_id, motion_events, timestamp) ==
    LET marked == MarkInactive(tracks)
        m == MatchEvents([tracks |-> marked, unmatched |-> <<>>, match_log |-> <<>>],
                         motion_events, 1, timestamp)
        c == CreateTracks([tracks |-> m.tracks, next_track_id |-> next_id,
                           created |-> <<>>],
                          m.unmatched, 1, timestamp)
        kept == CleanupInactiveTracks(c.tracks, timestamp)
    IN  [tracked_objects |-> kept,
         next_track_id |-> c.next_track_id,
         returned |-> ActiveTracks(kept),
         events |-> motion_events,
         match_log |-> m.match_log,
         created |-> c.created,
         removed |-> DOMAIN c.tracks \ DOMAIN kept]

\* config['tracking'].get('stationary_threshold', 5) * 60
stationary_threshold == 300

\* The default `threshold_frames: int = 30` of TrackedObject.is_stationary.
threshold_frames == 30

\* TrackedObject.is_stationary(threshold_frames)
IsStationary(obj, threshold) == obj.stationary_count >= threshold

\* ObjectTracker.get_stationary_objects.  It calls obj.is_stationary() with no
\* argument, so the threshold is the default of is_stationary;
\* self.stationary_threshold is read nowhere in the class.
GetStationaryObjects(tracks) ==
    SelectSeq(IterationOrder(DOMAIN tracks),
              LAMBDA id : tracks[id].is_active
                          /\ IsStationary(tracks[id], threshold_frames))

--------------------------------------------------------------------------
(* datetime *)

\* datetime(…, h, m, s) of day 0
HMS(h, m, s) == h * 3600 + m * 60 + s

\* datetime.hour, datetime.minute
HourOf(t) == (t \div 3600) % 24
MinuteOf(t) == (t \div 60) % 60

--------------------------------------------------------------------------
(* Strings: a str is a sequence of one-character strings *)

\* Characters of the configured time strings that are enumerated.
Alphabet == { "2", "6", ":", "x", " " }

Digits == { "0", "1", "2", "3", "4", "5", "6", "7", "8", "9" }

DigitValue(c) ==
    CASE c = "0" -> 0 [] c = "1" -> 1 [] c = "2" -> 2 [] c = "3" -> 3
      [] c = "4" -> 4 [] c = "5" -> 5 [] c = "6" -> 6 [] c = "7" -> 7
      [] c = "8" -> 8 [] c = "9" -> 9

\* str.split(':'): the parts between colons, at least one, possibly empty.
RECURSIVE SplitColon(_, _, _)
SplitColon(s, part, parts) ==
    IF s = <<>> THEN Append(parts, part)
    ELSE IF Head(s) = ":"
         THEN SplitColon(Tail(s), <<>>, Append(parts, part))
         ELSE SplitColon(Tail(s), Append(part, Head(s)), parts)

Split(s) == SplitColon(s, <<>>, <<>>)

\* str.strip() as int() applies it: leading and trailing whitespace removed.
RECURSIVE LStrip(_)
LStrip(s) == IF s # <<>> /\ Head(s) = " " THEN LStrip(Tail(s)) ELSE s

RECURSIVE RStrip(_)
RStrip(s) ==
    IF s # <<>> /\ s[Len(s)] = " " THEN RStrip(SubSeq(s, 1, Len(s) - 1)) ELSE s

RECURSIVE DecimalValue(_)
DecimalValue(t) ==
    IF t = <<>> THEN 0
    ELSE 10 * DecimalValue(SubSeq(t, 1, Len(t) - 1)) + DigitValue(t[Len(t)])

\* int(s) on a str: the value, or ValueError (ok = FALSE).  Over the
\* enumerated alphabet int() accepts exactly a non-empty run of digits with
\* optional surrounding whitespace.
PyInt(s) ==
    LET t == RStrip(LStrip(s))
    IN  IF t # <<>> /\ \A i \in 1..Len(t) : t[i] \in Digits
        THEN [ok |-> TRUE, value |-> DecimalValue(t)]
        ELSE [ok |-> FALSE, value |-> 0]

--------------------------------------------------------------------------
(* DetectionFilter *)

\* `return 22, 0` of the except branch
DefaultTime == << 22, 0 >>

\* The range check of _parse_time.
InRange(hour, minute) == 0 <= hour /\ hour <= 23 /\ 0 <= minute /\ minute <= 59

\* A parser that forgets the range check.
ParseTimeUnchecked(time_str) ==
    LET parts == Split(time_str)
        hour == PyInt(parts[1])
        minute == IF Len(parts) > 1 THEN PyInt(parts[2]) ELSE [ok |-> TRUE, value |-> 0]
    IN  IF ~hour.ok \/ ~minute.ok THEN DefaultTime
        ELSE << hour.value, minute.value >>

\* DetectionFilter._parse_time: (hour, minute).  A ValueError of int() or of
\* the range check is caught and gives the default.
ParseTime(time_str) ==
    LET parts == Split(time_str)
        hour == PyInt(parts[1])
        minute == IF Len(parts) > 1 THEN PyInt(parts[2]) ELSE [ok |-> TRUE, value |-> 0]
    IN  IF ~hour.ok THEN DefaultTime
        ELSE IF ~minute.ok THEN DefaultTime
        ELSE IF ~InRange(hour.value, minute.value) THEN DefaultTime
        ELSE << hour.value, minute.value >>

\* DetectionFilter.__init__
DetectionFilterInit(enabled, start_time_str, end_time_str) ==
    [enabled |-> enabled,
     start_time_str |-> start_time_str,
     end_time_str |-> end_time_str,
     start_hour |-> ParseTime(start_time_str)[1],
     start_minute |-> ParseTime(start_time_str)[2],
     end_hour |-> ParseTime(end_time_str)[1],
     end_minute |-> ParseTime(end_time_str)[2]]

\* A window whose end minute is still inside.
IsActiveEndInclusive(current_minutes, start_minutes, end_minutes) ==
    IF start_minutes > end_minutes
    THEN current_minutes >= start_minutes \/ current_minutes <= end_minutes
    ELSE current_minutes >= start_minutes /\ current_minutes <= end_minutes

\* A window that takes start = end for a window spanning midnight.
IsActiveWrapOnEqual(current_minutes, start_minutes, end_minutes) ==
    IF start_minutes >= end_minutes
    THEN current_minutes >= start_minutes \/ current_minutes < end_minutes
    ELSE current_minutes >= start_minutes /\ current_minutes < end_minutes

\* The window test of should_publish_detection on minutes since midnight.
IsActive(current_minutes, start_minutes, end_minutes) ==
    IF start_minutes > end_minutes
    THEN current_minutes >= start_minutes \/ current_minutes < end_minutes
    ELSE current_minutes >= start_minutes /\ current_minutes < end_minutes

\* A filter that applies its window also when it is disabled.
ShouldPublishIgnoringEnabled(f, timestamp) ==
    IsActive(HourOf(timestamp) * 60 + MinuteOf(timestamp),
             f.start_hour * 60 + f.start_minute,
             f.end_hour * 60 + f.end_minute)

\* DetectionFilter.should_publish_detection
ShouldPublishDetection(f, timestamp) ==
    IF ~f.enabled THEN TRUE
    ELSE IsActive(HourOf(timestamp) * 60 + MinuteOf(timestamp),
                  f.start_hour * 60 + f.start_minute,
                  f.end_hour * 60 + f.end_minute)

\* A truncation that keeps the seconds.
KeepSeconds(t) == t

\* timestamp.replace(second=0, microsecond=0)
TruncateToMinute(t) == t - (t % 60)

\* datetime.replace(hour=h, minute=m) of a datetime whose seconds are zero
ReplaceHourMinute(t, h, m) == t - (t % 86400) + h * 3600 + m * 60

\* Day 0 is the 30th of a month of 31 days, day 1 its last day.
IsLastDayOfMonth(t) == t \div 86400 = 1

\* next_active.replace(day=next_active.day + 1): ValueError on the last day
\* of a month.
ReplaceDayPlusOne(t) ==
    IF IsLastDayOfMonth(t) THEN [raised |-> TRUE, value |-> 0]
    ELSE [raised |-> FALSE, value |-> t + 86400]

\* DetectionFilter.get_next_active_time with a timestamp given: the value
\* returned, or that the call raised.
GetNextActiveTime(f, timestamp) ==
    IF ~f.enabled THEN [raised |-> FALSE, value |-> timestamp]
    ELSE LET current_datetime == TruncateToMinute(timestamp)
             current_minutes ==
                 HourOf(current_datetime) * 60 + MinuteOf(current_datetime)
             start_minutes == f.start_hour * 60 + f.start_minute
             end_minutes == f.end_hour * 60 + f.end_minute
             next_start ==
                 ReplaceHourMinute(current_datetime, f.start_hour, f.start_minute)
         IN  IF start_minutes > end_minutes
             THEN IF current_minutes >= start_minutes \/ current_minutes < end_minutes
                  THEN [raised |-> FALSE, value |-> current_datetime]
                  ELSE [raised |-> FALSE, value |-> next_start]
             ELSE IF current_minutes >= start_minutes /\ current_minutes < end_minutes
                  THEN [raised |-> FALSE, value |-> current_datetime]
                  ELSE IF next_start <= current_datetime
                       THEN ReplaceDayPlusOne(next_start)
                       ELSE [raised |-> FALSE, value |-> next_start]

--------------------------------------------------------------------------
(* A DetectionFilter built from configuration and queried *)

\* The default strings of __init__ and their swap.
T2200 == << "2", "2", ":", "0", "0" >>
T0600 == << "0", "6", ":", "0", "0" >>

\* Every string over the alphabet up to the length bound, and the defaults.
TimeStrings == SeqsUpTo(Alphabet, MaxStrLen) \cup { T2200, T0600 }

\* Timestamps given to should_publish_detection.
QueryTimes ==
    { HMS(22, 0, 0), HMS(23, 30, 0), HMS(1, 0, 0), HMS(2, 30, 0), HMS(5, 59, 59),
      HMS(6, 0, 0), HMS(12, 0, 0), HMS(21, 59, 59),
      HMS(2, 5, 59), HMS(2, 6, 0), HMS(6, 21, 59), HMS(6, 22, 0) }

NoQuery == [asked |-> FALSE, timestamp |-> 0, result |-> FALSE]

NoNextActive == [asked |-> FALSE, timestamp |-> 0, raised |-> FALSE, value |-> 0]

\* The filter of a behaviour that never uses one.
FilterIdle ==
    /\ df = DetectionFilterInit(TRUE, T2200, T0600)
    /\ query = NoQuery
    /\ next_active = NoNextActive

\* DetectionFilter(config): one of the two strings is a default one.
FilterInit ==
    /\ \E enabled \in BOOLEAN, a \in TimeStrings, b \in { T2200, T0600 } :
         \/ df = DetectionFilterInit(enabled, a, b)
         \/ df = DetectionFilterInit(enabled, b, a)
    /\ query = NoQuery
    /\ next_active = NoNextActive


--------------------------------------------------------------------------
(* NatureDocumentaryClient *)

\* integration_cfg.get("min_confidence", 0.35), in hundredths
min_confidence == 35

\* integration_cfg.get("cooldown_seconds", 45)
cooldown == 45

\* integration_cfg.get("track_cooldown_seconds", 25)
track_cooldown == 25

\* integration_cfg.get("max_batch_size", 5)
max_batch_size == 5

\* self._frame_size = None; `not self._frame_size` holds of it.
NoFrameSize == <<>>

\* NatureDocumentaryClient.__init__
NatureDocumentaryClientInit(enabled) ==
    [enabled |-> enabled,
     frame_size |-> NoFrameSize,
     last_global_event |-> NONE,
     track_last_event |-> <<>>]

\* NatureDocumentaryClient._is_suppressed.  `not track_id` holds of None and 0.
IsSuppressed(c, timestamp, track_id) ==
    \/ /\ c.last_global_event # NONE
       /\ timestamp - c.last_global_event < cooldown
       /\ (track_id = NONE \/ track_id = 0)
    \/ /\ track_id # NONE
       /\ track_id \in DOMAIN c.track_last_event
       /\ timestamp - c.track_last_event[track_id] < track_cooldown

\* NatureDocumentaryClient._register_emit
RegisterEmit(c, timestamp, track_id) ==
    [c EXCEPT !.last_global_event = timestamp,
              !.track_last_event =
                  IF track_id = NONE THEN @
                  ELSE [k \in DOMAIN @ \cup {track_id} |->
                          IF k = track_id THEN timestamp ELSE @[k]]]

\* The payload loop of publish_events over the items from i on.
RECURSIVE BuildPayloads(_, _, _)
BuildPayloads(acc, items, i) ==
    IF i > Len(items) \/ i > max_batch_size THEN acc
    ELSE LET event == items[i]
         IN  IF event.confidence < min_confidence
             THEN BuildPayloads(acc, items, i + 1)
             ELSE IF IsSuppressed(acc.client, event.timestamp, event.track_id)
             THEN BuildPayloads(acc, items, i + 1)
             ELSE BuildPayloads(
                    [client |-> RegisterEmit(acc.client, event.timestamp, event.track_id),
                     payloads |-> Append(acc.payloads,
                                         [timestamp |-> event.timestamp,
                                          track_id |-> event.track_id,
                                          confidence |-> event.confidence])],
                    items, i + 1)

\* A client that does not ask the DetectionFilter.
EarlyReturnNoWindow(c, f, annotated_events, current_time) ==
    IF ~c.enabled THEN "disabled"
    ELSE IF annotated_events = <<>> THEN "empty"
    ELSE IF c.frame_size = NoFrameSize THEN "no_frame_size"
    ELSE "go"

\* The four early returns of publish_events: which one is taken, or "go".
EarlyReturn(c, f, annotated_events, current_time) ==
    IF ~c.enabled THEN "disabled"
    ELSE IF annotated_events = <<>> THEN "empty"
    ELSE IF c.frame_size = NoFrameSize THEN "no_frame_size"
    ELSE IF ~ShouldPublishDetection(f, current_time) THEN "outside_window"
    ELSE "go"

\* NatureDocumentaryClient.publish_events: the client after the call, the
\* bodies posted by it (none or one) and how the call ended.  The outcome of
\* the POST (status code or RequestException) is only logged.
PublishEvents(c, f, annotated_events, current_time) ==
    LET early == EarlyReturn(c, f, annotated_events, current_time)
        built == BuildPayloads([client |-> c, payloads |-> <<>>], annotated_events, 1)
    IN  IF early # "go"
        THEN [client |-> c, posted |-> <<>>, outcome |-> early]
        ELSE IF built.payloads = <<>>
        THEN [client |-> built.client, posted |-> <<>>, outcome |-> "no_payloads"]
        ELSE [client |-> built.client, posted |-> << built.payloads >>,
              outcome |-> "posted"]

--------------------------------------------------------------------------
(* NocturnalEye: the schedule and the state of run() *)

\* schedule_config.get('start_time', '20:00') and ('end_time', '08:00'), as
\* seconds since midnight
schedule_start == 72000
schedule_end == 28800

\* `if len(batch_events) >= 10`
batch_size == 10

\* datetime.time(): seconds since midnight
TimeOfDay(t) == t % 86400

\* NocturnalEye.is_within_schedule with the schedule enabled
IsWithinSchedule(t) ==
    IF schedule_start > schedule_end
    THEN TimeOfDay(t) >= schedule_start \/ TimeOfDay(t) <= schedule_end
    ELSE schedule_start <= TimeOfDay(t) /\ TimeOfDay(t) <= schedule_end

\* The client of a behaviour that never uses one.
NatDocIdle ==
    /\ client = NatureDocumentaryClientInit(FALSE)
    /\ posts = <<>>
    /\ pub = [events |-> <<>>, outcome |-> "none"]
    /\ pub_clock = 0
    /\ pub_calls = 0
    /\ pub_fed = 0

\* The driver of a behaviour that never runs it.
RunIdle ==
    /\ run_pc = "init"
    /\ running = FALSE
    /\ clock = 0
    /\ frame_count = 0
    /\ batch_events = <<>>
    /\ db = <<>>
    /\ detected = <<>>
    /\ shutdowns = 0

--------------------------------------------------------------------------
(* ZoneAnalyzer *)
(* A zone is a dict with name, x, y and radius.  An Optional[str] is a list  *)
(* of at most one string: <<>> is None.  A dict of counts is its keys in     *)
(* insertion order together with the count of each key.                      *)

\* The key of the bucket for positions outside every zone.
Unknown == "Unknown"

\* A membership test that leaves out the boundary of the circle.
PointInZoneStrict(point, zone) ==
    /\ zone.radius > 0
    /\ Dist2(point, << zone.x, zone.y >>) < zone.radius * zone.radius

\* ZoneAnalyzer.point_in_zone: dist <= zone['radius'], on integer coordinates
\* and radius compared in squares; a negative radius contains no point.
PointInZone(point, zone) ==
    /\ zone.radius >= 0
    /\ Dist2(point, << zone.x, zone.y >>) <= zone.radius * zone.radius

\* ZoneAnalyzer.get_zone_for_position
RECURSIVE GetZoneForPosition(_, _)
GetZoneForPosition(zs, position) ==
    IF zs = <<>> THEN <<>>
    ELSE IF PointInZone(position, Head(zs))
         THEN << Head(zs).name >>
         ELSE GetZoneForPosition(Tail(zs), position)

\* `if zone_name:` on an Optional[str]: None and the empty string are false.
Truthy(zone_name) == zone_name # <<>> /\ zone_name[1] # ""

\* d[k] = 0 on the key list of a dict: a key already present keeps its place.
SetKey(keys, k) == IF k \in Range(keys) THEN keys ELSE Append(keys, k)

\* Keys of {zone['name']: 0 for zone in self.zones} followed by
\* zone_counts['Unknown'] = 0.
RECURSIVE InitialKeys(_, _)
InitialKeys(zs, keys) ==
    IF zs = <<>> THEN SetKey(keys, Unknown)
    ELSE InitialKeys(Tail(zs), SetKey(keys, Head(zs).name))

\* The loop over positions of analyze_activity_by_zone.
RECURSIVE CountPositions(_, _, _, _)
CountPositions(zs, count, positions, i) ==
    IF i > Len(positions) THEN count
    ELSE LET zone_name == GetZoneForPosition(zs, positions[i])
             key == IF Truthy(zone_name) THEN zone_name[1] ELSE Unknown
         IN  CountPositions(zs, [count EXCEPT ![key] = @ + 1], positions, i + 1)

\* ZoneAnalyzer.analyze_activity_by_zone
AnalyzeActivityByZone(zs, positions) ==
    LET keys == InitialKeys(zs, <<>>)
    IN  [keys |-> keys,
         count |-> CountPositions(zs, [k \in Range(keys) |-> 0], positions, 1)]

\* A max() that lets a later key with the same count win.
ReplacesBestOnTie(count, k, best) == count[k] >= count[best]

\* max(zone_counts, key=zone_counts.get) keeps the first of equal keys: a later
\* key replaces the best one only with a strictly greater count.
ReplacesBest(count, k, best) == count[k] > count[best]

RECURSIVE MaxKey(_, _, _, _)
MaxKey(keys, count, i, best) ==
    IF i > Len(keys) THEN best
    ELSE IF ReplacesBest(count, keys[i], best)
         THEN MaxKey(keys, count, i + 1, keys[i])
         ELSE MaxKey(keys, count, i + 1, best)

\* ZoneAnalyzer.get_most_visited_zone
GetMostVisitedZone(zs, positions) ==
    LET zone_counts == AnalyzeActivityByZone(zs, positions)
        keys == SelectSeq(zone_counts.keys, LAMBDA k : k # Unknown)
    IN  IF keys = <<>> THEN <<>>
        ELSE << MaxKey(keys, zone_counts.count, 2, keys[1]) >>

NoCounts == [keys |-> <<>>, count |-> <<>>]

NoZoneCall == [op |-> "none", positions |-> <<>>, zone |-> <<>>, counts |-> NoCounts]

\* The analyzer of a behaviour that never uses one.
ZoneIdle ==
    /\ zones = <<>>
    /\ zone_call = NoZoneCall

--------------------------------------------------------------------------
(* MotionDetector *)
(* cv2.contourArea of a contour with integer corners is a multiple of 0.5:   *)
(* an area is held as area2, twice its value.  A confidence is the fraction  *)
(* << numerator, denominator >>; a configured min_confidence is in percent.  *)
(* A frame is None (NullFrame) or the list of the areas of the contours      *)
(* cv2.findContours finds in its foreground mask.                            *)

\* config['motion'].get('min_area', 1000)
motion_min_area == 1000

\* config['motion'].get('max_area', 8000)
motion_max_area == 8000

\* config['motion'].get('min_confidence', 0.0)
motion_min_confidence == 0

\* MotionDetector.__init__
MotionDetectorInit(min_a, max_a, min_conf) ==
    [min_area |-> min_a, max_area |-> max_a, min_confidence |-> min_conf,
     frame_count |-> 0, motion_count |-> 0, bg_frames |-> 0]

NullFrame == << NONE >>

\* An area filter that leaves out max_area itself.
AreaInRangeExclusive(d, area2) == 2 * d.min_area <= area2 /\ area2 < 2 * d.max_area

\* self.min_area <= area <= self.max_area
AreaInRange(d, area2) == 2 * d.min_area <= area2 /\ area2 <= 2 * d.max_area

\* A confidence that divides by min_area.
ConfidenceOverMinArea(d, area2) ==
    IF area2 >= 2 * d.min_area THEN << 1, 1 >> ELSE << area2, 2 * d.min_area >>

\* confidence = min(1.0, area / self.max_area)
Confidence(d, area2) ==
    IF area2 >= 2 * d.max_area THEN << 1, 1 >> ELSE << area2, 2 * d.max_area >>

\* confidence < self.min_confidence
BelowMinConfidence(d, confidence) ==
    confidence[1] * 100 < d.min_confidence * confidence[2]

\* MotionEvent(...) as detect_motion builds it: area=int(area), track_id None.
\* contour is the place of the contour in the frame's contour list.
DetectedEvent(d, i, area2) ==
    [area |-> area2 \div 2, confidence |-> Confidence(d, area2),
     contour |-> i, track_id |-> NONE]

\* The loop over contours of detect_motion, from contour i on.
RECURSIVE ProcessContours(_, _, _, _)
ProcessContours(d, contours, i, motion_events) ==
    IF i > Len(contours) THEN motion_events
    ELSE IF ~AreaInRange(d, contours[i])
         THEN ProcessContours(d, contours, i + 1, motion_events)
         ELSE IF BelowMinConfidence(d, Confidence(d, contours[i]))
              THEN ProcessContours(d, contours, i + 1, motion_events)
              ELSE ProcessContours(d, contours, i + 1,
                        Append(motion_events, DetectedEvent(d, i, contours[i])))

\* A detect_motion that hands every frame, a null one too, to the background
\* subtractor before it looks at it.
DetectMotionFeedsNull(d, frame) ==
    IF frame = NullFrame
    THEN [detector |-> [d EXCEPT !.frame_count = @ + 1, !.bg_frames = @ + 1],
          motion_events |-> <<>>]
    ELSE LET motion_events == ProcessContours(d, frame, 1, <<>>)
         IN  [detector |-> [d EXCEPT !.frame_count = @ + 1,
                                     !.bg_frames = @ + 1,
                                     !.motion_count = @ + Len(motion_events)],
              motion_events |-> motion_events]

\* MotionDetector.detect_motion: the detector after the call and the list
\* returned.  frame_count is incremented before the frame is looked at.
DetectMotion(d, frame) ==
    IF frame = NullFrame
    THEN [detector |-> [d EXCEPT !.frame_count = @ + 1], motion_events |-> <<>>]
    ELSE LET motion_events == ProcessContours(d, frame, 1, <<>>)
         IN  [detector |-> [d EXCEPT !.frame_count = @ + 1,
                                     !.bg_frames = @ + 1,
                                     !.motion_count = @ + Len(motion_events)],
              motion_events |-> motion_events]

NoDetectCall == [called |-> FALSE, frame |-> <<>>, motion_events |-> <<>>]

\* The detector of a behaviour that never uses one.
DetectorIdle ==
    /\ md = MotionDetectorInit(motion_min_area, motion_max_area, motion_min_confidence)
    /\ detect_call = NoDetectCall

--------------------------------------------------------------------------
(* StreamConsumer *)

\* config['stream'].get('fallback_path', ''): '' or the path of a file
NoPath == ""

\* The capture cv2.VideoCapture(self.fallback_path) returns; the capture of
\* the k-th cv2.VideoCapture(self.stream_url) is k.
FallbackCapture == 0

\* StreamConsumer.__init__
StreamConsumerInit(max_retries, retry_forever, fallback_enabled, fallback_path) ==
    [max_retries |-> max_retries, retry_forever |-> retry_forever,
     fallback_enabled |-> fallback_enabled, fallback_path |-> fallback_path,
     capture |-> NONE]

\* A connect that never retries forever.
EffectiveRetryForeverOff(retry_forever, fallback_enabled) == FALSE

\* effective_retry_forever = self.retry_forever and not self.fallback_enabled
EffectiveRetryForever(retry_forever, fallback_enabled) ==
    retry_forever /\ ~fallback_enabled

\* A retry test that allows one attempt more.
ShouldRetryInclusive(effective_retry_forever, retries, max_retries) ==
    effective_retry_forever \/ retries <= max_retries

\* if effective_retry_forever or retries < self.max_retries
ShouldRetry(effective_retry_forever, retries, max_retries) ==
    effective_retry_forever \/ retries < max_retries

\* if self.fallback_enabled and self.fallback_path
UseFallback(c) == c.fallback_enabled /\ c.fallback_path # NoPath

\* What one pass of the loop of connect can meet: the test read gives a frame;
\* cv2.VideoCapture raises; set or read raises or read gives no frame; the
\* same with a KeyboardInterrupt in the sleep that follows; a KeyboardInterrupt
\* inside cv2.VideoCapture or inside read.
AttemptOutcomes ==
    { "ok", "open_raises", "read_fails", "read_fails_sleep_interrupted",
      "interrupt_open", "interrupt_read" }

\* The except branch of connect: self.capture after it and the capture
\* released by it, if any.
ReleaseCapture(capture) ==
    IF capture # NONE THEN [capture |-> NONE, released |-> << capture >>]
    ELSE [capture |-> capture, released |-> <<>>]

\* What _connect_fallback can meet after the file was found: as above.
FallbackOutcomes == { "ok", "open_raises", "read_fails" }

\* A _connect_fallback that does not look whether the file exists.
ConnectFallbackUnchecked(capture, exists, outcome) ==
    IF outcome = "open_raises"
    THEN [capture |-> capture, result |-> "False", opened |-> TRUE, read_ok |-> FALSE]
    ELSE IF outcome = "ok"
    THEN [capture |-> FallbackCapture, result |-> "True", opened |-> TRUE,
          read_ok |-> TRUE]
    ELSE [capture |-> FallbackCapture, result |-> "False", opened |-> TRUE,
          read_ok |-> FALSE]

\* StreamConsumer._connect_fallback: self.capture after it, the value returned,
\* whether cv2.VideoCapture was called and whether the test read gave a frame.
ConnectFallback(capture, exists, outcome) ==
    IF ~exists
    THEN [capture |-> capture, result |-> "False", opened |-> FALSE, read_ok |-> FALSE]
    ELSE IF outcome = "open_raises"
    THEN [capture |-> capture, result |-> "False", opened |-> TRUE, read_ok |-> FALSE]
    ELSE IF outcome = "ok"
    THEN [capture |-> FallbackCapture, result |-> "True", opened |-> TRUE,
          read_ok |-> TRUE]
    ELSE [capture |-> FallbackCapture, result |-> "False", opened |-> TRUE,
          read_ok |-> FALSE]

\* No connect() call yet.
NoConnect ==
    [pc |-> "idle", retries |-> 0, effective_retry_forever |-> FALSE,
     attempts |-> 0, log |-> <<>>, released |-> <<>>, read_ok |-> {},
     fallback_calls |-> 0, fallback |-> <<>>, result |-> "none"]

\* The stream consumer of a behaviour that never uses one.
StreamIdle ==
    /\ sc = StreamConsumerInit(5, FALSE, FALSE, NoPath)
    /\ conn = NoConnect

(* SnapshotManager *)

\* timedelta.seconds of later - earlier: the days of the difference are a
\* field of their own and are left out.
TimedeltaSeconds(later, earlier) == (later - earlier) % 86400

\* SnapshotManager.__init__
SnapshotManagerInit(save_interval, max_snapshots) ==
    [save_interval |-> save_interval, max_snapshots |-> max_snapshots,
     last_snapshot_time |-> NONE]

\* SnapshotManager.should_save_snapshot at datetime.now() = t
ShouldSaveSnapshot(m, t) ==
    IF m.last_snapshot_time = NONE THEN TRUE
    ELSE TimedeltaSeconds(t, m.last_snapshot_time) >= m.save_interval

\* timestamp.strftime('%Y%m%d_%H%M%S'): day, hour, minute and second
SnapshotName(t) == << t \div 86400, HourOf(t), MinuteOf(t), t % 60 >>

\* cv2.imwrite and json.dump of save_snapshot: the image and its metadata
\* file are written, over files of the same name.
WriteSnapshot(dir, name, t, detection_count) ==
    [jpg |-> { f \in dir.jpg : f.name # name } \cup { [name |-> name, mtime |-> t] },
     json |-> { j \in dir.json : j.name # name }
                \cup { [name |-> name, detection_count |-> detection_count] }]

\* snapshots[max_snapshots:] of the images sorted by st_mtime, newest first
ExcessSnapshots(files, max_snapshots) ==
    { f \in files : Cardinality({ g \in files : g.mtime > f.mtime }) >= max_snapshots }

\* A cleanup that sorts oldest first.
CleanupKeepsOldest(dir, max_snapshots) ==
    LET excess == { f \in dir.jpg :
                      Cardinality({ g \in dir.jpg : g.mtime < f.mtime }) >= max_snapshots }
    IN  [jpg |-> dir.jpg \ excess,
         json |-> { j \in dir.json : \A f \in excess : f.name # j.name }]

\* SnapshotManager._cleanup_old_snapshots
CleanupOldSnapshots(dir, max_snapshots) ==
    LET excess == IF Cardinality(dir.jpg) > max_snapshots
                  THEN ExcessSnapshots(dir.jpg, max_snapshots) ELSE {}
    IN  [jpg |-> dir.jpg \ excess,
         json |-> { j \in dir.json : \A f \in excess : f.name # j.name }]

\* SnapshotManager.save_snapshot at datetime.now() = t: the manager and the
\* directory after the call, and the Optional[Path] returned.
SaveSnapshot(m, dir, t, motion_events) ==
    IF ~ShouldSaveSnapshot(m, t)
    THEN [manager |-> m, dir |-> dir, returned |-> <<>>]
    ELSE IF motion_events = <<>>
    THEN [manager |-> m, dir |-> dir, returned |-> <<>>]
    ELSE LET name == SnapshotName(t)
             written == WriteSnapshot(dir, name, t, Len(motion_events))
         IN  [manager |-> [m EXCEPT !.last_snapshot_time = t],
              dir |-> CleanupOldSnapshots(written, m.max_snapshots),
              returned |-> << name >>]

EmptyDir == [jpg |-> {}, json |-> {}]

NoSave ==
    [called |-> FALSE, now |-> 0, motion_events |-> <<>>, last_before |-> NONE,
     dir_before |-> EmptyDir, returned |-> <<>>, calls |-> 0]

\* The snapshot manager of a behaviour that never uses one.
SnapshotIdle ==
    /\ sm = SnapshotManagerInit(60, 100)
    /\ snapshot_dir = EmptyDir
    /\ save_call = NoSave

--------------------------------------------------------------------------
(* Database.get_activity_histogram *)

\* ORDER BY timestamp
RECURSIVE OrderByTimestamp(_)
OrderByTimestamp(rows) ==
    IF rows = <<>> THEN <<>>
    ELSE LET i == CHOOSE i \in 1..Len(rows) :
                    \A k \in 1..Len(rows) :
                       rows[i] < rows[k] \/ (rows[i] = rows[k] /\ i <= k)
         IN  << rows[i] >>
               \o OrderByTimestamp(SubSeq(rows, 1, i - 1) \o SubSeq(rows, i + 1, Len(rows)))

\* Database.get_events_by_range: the timestamps of the rows selected
GetEventsByRange(table, start_date, end_date) ==
    OrderByTimestamp(SelectSeq(table, LAMBDA ts : ts >= start_date /\ ts < end_date))

\* if bucket_minutes <= 0: bucket_minutes = 60
EffectiveBucketMinutes(bucket_minutes) ==
    IF bucket_minutes <= 0 THEN 60 ELSE bucket_minutes

\* A bucket count that leaves out the last, partial bucket.
BucketCountWithoutPartial(start_date, end_date, bucket_seconds) ==
    Max(Max(end_date - start_date, 0) \div bucket_seconds, 1)

\* total_seconds and bucket_count of get_activity_histogram
BucketCount(start_date, end_date, bucket_seconds) ==
    Max(Max(end_date - start_date, 0) \div bucket_seconds + 1, 1)

\* The loop over the events of get_activity_histogram
RECURSIVE CountEvents(_, _, _, _)
CountEvents(buckets, events, start_date, bucket_seconds) ==
    IF events = <<>> THEN buckets
    ELSE LET delta_seconds == Head(events) - start_date
             index == delta_seconds \div bucket_seconds
         IN  IF delta_seconds < 0
             THEN CountEvents(buckets, Tail(events), start_date, bucket_seconds)
             ELSE IF index >= Len(buckets)
             THEN CountEvents(buckets, Tail(events), start_date, bucket_seconds)
             ELSE CountEvents([buckets EXCEPT ![index + 1].count = @ + 1],
                              Tail(events), start_date, bucket_seconds)

\* Database.get_activity_histogram
GetActivityHistogram(table, start_date, end_date, bucket_minutes) ==
    LET events == GetEventsByRange(table, start_date, end_date)
        bucket_seconds == EffectiveBucketMinutes(bucket_minutes) * 60
        bucket_count == BucketCount(start_date, end_date, bucket_seconds)
        buckets == [i \in 1..bucket_count |->
                      [start |-> start_date + (i - 1) * bucket_seconds,
                       end |-> start_date + i * bucket_seconds,
                       count |-> 0]]
    IN  CountEvents(buckets, events, start_date, bucket_seconds)

NoHistogram ==
    [asked |-> FALSE, start_date |-> 0, end_date |-> 0, bucket_minutes |-> 60,
     rows |-> <<>>, buckets |-> <<>>]

\* The event table of a behaviour that never asks for a histogram.
HistogramIdle ==
    /\ motion_events_table = <<>>
    /\ hist = NoHistogram

--------------------------------------------------------------------------
(* NotificationTrigger *)

\* NotificationTrigger.__init__
NotificationTriggerInit(rate_limit_seconds) ==
    [rate_limit_seconds |-> rate_limit_seconds, last_notification_time |-> NONE]

\* A rate limit that lets every call through.
ShouldNotifyAlways(n, t) == TRUE

\* NotificationTrigger.should_notify at datetime.now() = t
ShouldNotify(n, t) ==
    IF n.last_notification_time = NONE THEN TRUE
    ELSE t - n.last_notification_time >= n.rate_limit_seconds

\* response.status_code in [200, 201, 204]
Delivered(status_code) == status_code \in { 200, 201, 204 }

\* NotificationTrigger.send_gecko_detection_notification called at time t.
\* webhook and message are the answers of the two endpoints (NONE: the post
\* raised), answered is datetime.now() after the answer.  Gives the trigger
\* after the call, the value returned and the requests issued.
SendGeckoDetectionNotification(n, t, webhook, message, answered) ==
    IF ~ShouldNotify(n, t)
    THEN [trigger |-> n, returned |-> FALSE, requests |-> <<>>]
    ELSE LET first == [url |-> "webhook", status_code |-> webhook]
             second == [url |-> "messages", status_code |-> message]
             sent == [n EXCEPT !.last_notification_time = answered]
         IN  IF webhook = NONE
             THEN [trigger |-> n, returned |-> FALSE, requests |-> << first >>]
             ELSE IF Delivered(webhook)
             THEN [trigger |-> sent, returned |-> TRUE, requests |-> << first >>]
             ELSE IF webhook = 404
             THEN IF message = NONE
                  THEN [trigger |-> n, returned |-> FALSE,
                        requests |-> << first, second >>]
                  ELSE IF Delivered(message)
                  THEN [trigger |-> sent, returned |-> TRUE,
                        requests |-> << first, second >>]
                  ELSE [trigger |-> n, returned |-> FALSE,
                        requests |-> << first, second >>]
             ELSE [trigger |-> n, returned |-> FALSE, requests |-> << first >>]

NoNotify ==
    [called |-> FALSE, now |-> 0, answered |-> 0, last_before |-> NONE,
     returned |-> FALSE, requests |-> <<>>, calls |-> 0]

\* The notification trigger of a behaviour that never uses one.
NotifyIdle ==
    /\ nt = NotificationTriggerInit(300)
    /\ notify_call = NoNotify
    /\ delivered = <<>>

--------------------------------------------------------------------------
(* The tracker driven by arbitrary update calls *)

NoCall ==
    [events |-> <<>>, returned |-> <<>>, match_log |-> <<>>,
     created |-> <<>>, removed |-> {}, before |-> {}]

NoStationary == [asked |-> FALSE, returned |-> <<>>]

\* No second tracker: one tracker, nothing recorded.
NoReplay == [run |-> 1, calls |-> <<>>, snapshots |-> <<>>, at |-> 0]

TrackerInit ==
    /\ tracked_objects = <<>>
    /\ next_track_id = 1
    /\ now = 0
    /\ last = NoCall
    /\ allocated = <<>>
    /\ cycles = 0
    /\ fed = 0
    /\ stationary = NoStationary
    /\ replay = NoReplay

\* tracker.update(motion_events, timestamp)
Update ==
    /\ cycles < MaxCycles
    /\ \E k \in DOMAIN Deltas, cs \in SeqsUpTo(Centroids, MaxEvents - fed) :
         \* the contours of one frame have distinct centroids
         /\ \A i, j \in 1..Len(cs) : i # j => cs[i] # cs[j]
         /\ LET timestamp == now + Deltas[k]
                motion_events == [i \in 1..Len(cs) |->
                                    MotionEvent(timestamp, cs[i], AreaOf(cs[i]))]
                r == TrackerUpdate(tracked_objects, next_track_id,
                                   motion_events, timestamp)
            IN  /\ tracked_objects' = r.tracked_objects
                /\ next_track_id' = r.next_track_id
                /\ now' = timestamp
                /\ last' = [events |-> r.events, returned |-> r.returned,
                            match_log |-> r.match_log, created |-> r.created,
                            removed |-> r.removed, before |-> DOMAIN tracked_objects]
                /\ allocated' = allocated \o r.created
                /\ fed' = fed + Len(cs)
    /\ cycles' = cycles + 1
    /\ UNCHANGED << stationary, replay >>
    /\ UNCHANGED << filter_vars, natdoc_vars, run_vars, zone_vars, detector_vars, stream_vars, snapshot_vars, histogram_vars,
                    notify_vars >>

Next == Update

Init == TrackerInit /\ FilterIdle /\ NatDocIdle /\ RunIdle /\ ZoneIdle /\ DetectorIdle
    /\ StreamIdle /\ SnapshotIdle /\ HistogramIdle /\ NotifyIdle

Spec == Init /\ [][Next]_vars

--------------------------------------------------------------------------
(* The filter queried at arbitrary times *)

\* The tracker of a behaviour that never uses one.
TrackerIdle == TrackerInit

\* df.should_publish_detection(timestamp)
ShouldPublish ==
    /\ \E t \in QueryTimes :
         query' = [asked |-> TRUE, timestamp |-> t,
                   result |-> ShouldPublishDetection(df, t)]
    /\ UNCHANGED << df, next_active >>
    /\ UNCHANGED << tracker_vars, natdoc_vars, run_vars, zone_vars, detector_vars, stream_vars, snapshot_vars, histogram_vars,
                    notify_vars >>

FilterNext == ShouldPublish

InitFilter == TrackerIdle /\ FilterInit /\ NatDocIdle /\ RunIdle /\ ZoneIdle /\ DetectorIdle
    /\ StreamIdle /\ SnapshotIdle /\ HistogramIdle /\ NotifyIdle

SpecFilter == InitFilter /\ [][FilterNext]_vars

--------------------------------------------------------------------------
(* The filter asked for its next active time *)

\* Configured start and end strings: the defaults, 02:06 and 06:22.
WindowStrings ==
    { T2200, T0600, << "2", ":", "6" >>, << "6", ":", "2", "2" >> }

\* Timestamps given to get_next_active_time: the times of QueryTimes on the
\* last two days of a month.
NextActiveTimes == { d * 86400 + t : d \in { 0, 1 }, t \in QueryTimes }

NextActiveInit ==
    /\ \E enabled \in BOOLEAN, a, b \in WindowStrings :
         df = DetectionFilterInit(enabled, a, b)
    /\ query = NoQuery
    /\ next_active = NoNextActive

\* df.get_next_active_time(timestamp)
GetNextActive ==
    /\ \E t \in NextActiveTimes :
         LET r == GetNextActiveTime(df, t)
         IN  next_active' = [asked |-> TRUE, timestamp |-> t,
                             raised |-> r.raised, value |-> r.value]
    /\ UNCHANGED << df, query >>
    /\ UNCHANGED << tracker_vars, natdoc_vars, run_vars, zone_vars, detector_vars, stream_vars, snapshot_vars, histogram_vars,
                    notify_vars >>

NextActiveNext == GetNextActive

InitNextActive ==
    TrackerIdle /\ NextActiveInit /\ NatDocIdle /\ RunIdle /\ ZoneIdle /\ DetectorIdle
    /\ StreamIdle /\ SnapshotIdle /\ HistogramIdle /\ NotifyIdle

SpecNextActive == InitNextActive /\ [][NextActiveNext]_vars

--------------------------------------------------------------------------
(* The client given arbitrary publish_events calls *)

\* Seconds between one publish_events call and the next.
PublishDeltas == << 20, 30 >>

\* Events handed to the client: (track_id, confidence in hundredths).
PublishableEvents == { << NONE, 80 >>, << 1, 80 >>, << 1, 20 >> }

NatDocInit ==
    /\ \E enabled \in BOOLEAN : client = NatureDocumentaryClientInit(enabled)
    /\ posts = <<>>
    /\ pub = [events |-> <<>>, outcome |-> "none"]
    /\ pub_clock = HMS(5, 58, 40)
    /\ pub_calls = 0
    /\ pub_fed = 0

\* client.set_frame_size((640, 480))
SetFrameSize ==
    /\ client.frame_size = NoFrameSize
    /\ client' = [client EXCEPT !.frame_size = << 640, 480 >>]
    /\ UNCHANGED << posts, pub, pub_clock, pub_calls, pub_fed >>
    /\ UNCHANGED << tracker_vars, filter_vars, run_vars, zone_vars, detector_vars, stream_vars, snapshot_vars, histogram_vars,
                    notify_vars >>

\* client.publish_events(annotated_events, current_time)
Publish ==
    /\ pub_calls < MaxPublishes
    /\ \E k \in DOMAIN PublishDeltas, es \in SeqsUpTo(PublishableEvents, MaxPubEvents - pub_fed) :
         LET current_time == pub_clock + PublishDeltas[k]
             annotated_events ==
                 [i \in 1..Len(es) |->
                    [timestamp |-> current_time, track_id |-> es[i][1],
                     confidence |-> es[i][2]]]
             r == PublishEvents(client, df, annotated_events, current_time)
         IN  /\ client' = r.client
             /\ posts' = posts \o r.posted
             /\ pub' = [events |-> annotated_events, outcome |-> r.outcome]
             /\ pub_clock' = current_time
             /\ pub_fed' = pub_fed + Len(es)
    /\ pub_calls' = pub_calls + 1
    /\ UNCHANGED << tracker_vars, filter_vars, run_vars, zone_vars, detector_vars, stream_vars, snapshot_vars, histogram_vars,
                    notify_vars >>

NatDocNext == SetFrameSize \/ Publish

InitNatDoc == TrackerIdle /\ FilterIdle /\ NatDocInit /\ RunIdle /\ ZoneIdle /\ DetectorIdle
    /\ StreamIdle /\ SnapshotIdle /\ HistogramIdle /\ NotifyIdle

SpecNatDoc == InitNatDoc /\ [][NatDocNext]_vars

--------------------------------------------------------------------------
(* NocturnalEye.run *)

\* datetime.now() when run() starts.
StartClocks == { HMS(19, 59, 59), HMS(21, 59, 58), HMS(7, 59, 59) }

\* Seconds from one frame to the next.
FrameDeltas == << 1, 11 >>

\* What detect_motion finds in a frame: the centroids of its contours.
Detections ==
    << <<>>,
       << <<0, 0>> >>,
       << <<3, 4>>, <<60, 80>> >>,
       << <<0, 0>>, <<3, 4>>, <<6, 8>>, <<60, 80>> >> >>

RunInit ==
    /\ run_pc = "init"
    /\ running = FALSE
    /\ clock \in StartClocks
    /\ frame_count = 0
    /\ batch_events = <<>>
    /\ db = <<>>
    /\ detected = <<>>
    /\ shutdowns = 0

\* A sink that drops what it is given.
InsertSkipped(database, events) == database

\* Database.insert_motion_events_batch
InsertMotionEventsBatch(database, events) ==
    IF events = <<>> THEN database ELSE Append(database, events)

\* A finally block that leaves out shutdown().
FinallyWithoutShutdown(batch) ==
    /\ db' = (IF batch # <<>> THEN InsertMotionEventsBatch(db, batch) ELSE db)
    /\ batch_events' = batch
    /\ shutdowns' = shutdowns
    /\ run_pc' = "done"

\* The finally block of run(): the remaining events are inserted, then
\* shutdown() runs.
Finally(batch) ==
    /\ db' = (IF batch # <<>> THEN InsertMotionEventsBatch(db, batch) ELSE db)
    /\ batch_events' = batch
    /\ shutdowns' = shutdowns + 1
    /\ run_pc' = "done"

\* run() up to the loop: running is set, the stream connects.
RunConnected ==
    /\ run_pc = "init"
    /\ running' = TRUE
    /\ run_pc' = "loop"
    /\ UNCHANGED << clock, frame_count, batch_events, db, detected, shutdowns >>
    /\ UNCHANGED << tracker_vars, filter_vars, natdoc_vars, zone_vars, detector_vars, stream_vars, snapshot_vars, histogram_vars,
                    notify_vars >>

\* run() when stream_consumer.connect() returns False: `return` enters the
\* finally block before batch_events was ever assigned, and `if batch_events`
\* raises UnboundLocalError out of run().
RunConnectFailed ==
    /\ run_pc = "init"
    /\ running' = TRUE
    /\ run_pc' = "crashed"
    /\ UNCHANGED << clock, frame_count, batch_events, db, detected, shutdowns >>
    /\ UNCHANGED << tracker_vars, filter_vars, natdoc_vars, zone_vars, detector_vars, stream_vars, snapshot_vars, histogram_vars,
                    notify_vars >>

\* signal_handler
SignalHandler ==
    /\ run_pc = "loop"
    /\ running
    /\ running' = FALSE
    /\ UNCHANGED << run_pc, clock, frame_count, batch_events, db, detected, shutdowns >>
    /\ UNCHANGED << tracker_vars, filter_vars, natdoc_vars, zone_vars, detector_vars, stream_vars, snapshot_vars, histogram_vars,
                    notify_vars >>

\* A frame arrives after running was cleared: break, then the finally block.
FrameAfterSignal ==
    /\ run_pc = "loop"
    /\ ~running
    /\ Finally(batch_events)
    /\ UNCHANGED << running, clock, frame_count, detected >>
    /\ UNCHANGED << tracker_vars, filter_vars, natdoc_vars, zone_vars, detector_vars, stream_vars, snapshot_vars, histogram_vars,
                    notify_vars >>

\* get_frames() ends (the stream could not be reopened): the loop ends, then
\* the finally block.
EndOfStream ==
    /\ run_pc = "loop"
    /\ Finally(batch_events)
    /\ UNCHANGED << running, clock, frame_count, detected >>
    /\ UNCHANGED << tracker_vars, filter_vars, natdoc_vars, zone_vars, detector_vars, stream_vars, snapshot_vars, histogram_vars,
                    notify_vars >>

\* A frame arrives outside the monitoring schedule: sleep and continue.
FrameOutsideSchedule ==
    /\ run_pc = "loop"
    /\ running
    /\ frame_count < MaxFrames
    /\ \E k \in DOMAIN FrameDeltas :
         /\ clock' = clock + FrameDeltas[k]
         /\ ~IsWithinSchedule(clock')
    /\ frame_count' = frame_count + 1
    /\ UNCHANGED << run_pc, running, batch_events, db, detected, shutdowns >>
    /\ UNCHANGED << tracker_vars, filter_vars, natdoc_vars, zone_vars, detector_vars, stream_vars, snapshot_vars, histogram_vars,
                    notify_vars >>

\* A frame arrives inside the schedule and detect_motion raises: the except
\* branch logs it, then the finally block.
FrameRaises ==
    /\ run_pc = "loop"
    /\ running
    /\ frame_count < MaxFrames
    /\ \E k \in DOMAIN FrameDeltas :
         /\ clock' = clock + FrameDeltas[k]
         /\ IsWithinSchedule(clock')
    /\ frame_count' = frame_count + 1
    /\ Finally(batch_events)
    /\ UNCHANGED << running, detected >>
    /\ UNCHANGED << tracker_vars, filter_vars, natdoc_vars, zone_vars, detector_vars, stream_vars, snapshot_vars, histogram_vars,
                    notify_vars >>

\* A frame arrives inside the schedule and is processed: detect_motion, then
\* tracker.update and batch_events.extend when there are events, then the
\* batch insert when 10 or more events are pending.
FrameProcessed ==
    /\ run_pc = "loop"
    /\ running
    /\ frame_count < MaxFrames
    /\ \E k \in DOMAIN FrameDeltas, n \in DOMAIN Detections :
         LET current_time == clock + FrameDeltas[k]
             motion_events ==
                 [i \in 1..Len(Detections[n]) |->
                    MotionEvent(current_time, Detections[n][i], AreaOf(Detections[n][i]))]
             r == TrackerUpdate(tracked_objects, next_track_id, motion_events, current_time)
             batch == batch_events \o motion_events
         IN  /\ IsWithinSchedule(current_time)
             /\ clock' = current_time
             /\ detected' = detected \o motion_events
             /\ IF motion_events # <<>>
                THEN /\ tracked_objects' = r.tracked_objects
                     /\ next_track_id' = r.next_track_id
                     /\ now' = current_time
                     /\ last' = [events |-> r.events, returned |-> r.returned,
                                 match_log |-> r.match_log, created |-> r.created,
                                 removed |-> r.removed, before |-> DOMAIN tracked_objects]
                     /\ allocated' = allocated \o r.created
                ELSE UNCHANGED << tracked_objects, next_track_id, now, last, allocated >>
             /\ IF Len(batch) >= batch_size
                THEN /\ db' = InsertMotionEventsBatch(db, batch)
                     /\ batch_events' = <<>>
                ELSE /\ db' = db
                     /\ batch_events' = batch
    /\ frame_count' = frame_count + 1
    /\ UNCHANGED << run_pc, running, shutdowns, cycles, fed, stationary, replay >>
    /\ UNCHANGED << filter_vars, natdoc_vars, zone_vars, detector_vars, stream_vars, snapshot_vars, histogram_vars,
                    notify_vars >>

RunNext ==
    \/ RunConnected
    \/ RunConnectFailed
    \/ SignalHandler
    \/ FrameAfterSignal
    \/ EndOfStream
    \/ FrameOutsideSchedule
    \/ FrameRaises
    \/ FrameProcessed

InitRun == TrackerIdle /\ FilterIdle /\ NatDocIdle /\ RunInit /\ ZoneIdle /\ DetectorIdle
    /\ StreamIdle /\ SnapshotIdle /\ HistogramIdle /\ NotifyIdle

SpecRun == InitRun /\ [][RunNext]_vars

--------------------------------------------------------------------------
(* The tracker watching one gecko that sits still *)

\* Seconds between one update call and the next.
StillDeltas == << 1, 11 >>

\* tracker.update([event], timestamp) with the event at the same place
UpdateStill ==
    /\ cycles < MaxStillCycles
    /\ \E k \in DOMAIN StillDeltas :
         LET timestamp == now + StillDeltas[k]
             motion_events == << MotionEvent(timestamp, << 0, 0 >>, AreaOf(<< 0, 0 >>)) >>
             r == TrackerUpdate(tracked_objects, next_track_id,
                                motion_events, timestamp)
         IN  /\ tracked_objects' = r.tracked_objects
             /\ next_track_id' = r.next_track_id
             /\ now' = timestamp
             /\ last' = [events |-> r.events, returned |-> r.returned,
                         match_log |-> r.match_log, created |-> r.created,
                         removed |-> r.removed, before |-> DOMAIN tracked_objects]
             /\ allocated' = allocated \o r.created
    /\ cycles' = cycles + 1
    /\ fed' = fed + 1
    /\ UNCHANGED << stationary, replay >>
    /\ UNCHANGED << filter_vars, natdoc_vars, run_vars, zone_vars, detector_vars, stream_vars, snapshot_vars, histogram_vars,
                    notify_vars >>

\* tracker.get_stationary_objects()
GetStationary ==
    /\ stationary' = [asked |-> TRUE, returned |-> GetStationaryObjects(tracked_objects)]
    /\ UNCHANGED << tracked_objects, next_track_id, now, last, allocated, cycles, fed,
                    replay >>
    /\ UNCHANGED << filter_vars, natdoc_vars, run_vars, zone_vars, detector_vars, stream_vars, snapshot_vars, histogram_vars,
                    notify_vars >>

StationaryNext == UpdateStill \/ GetStationary

InitStationary ==
    TrackerInit /\ FilterIdle /\ NatDocIdle /\ RunIdle /\ ZoneIdle /\ DetectorIdle
    /\ StreamIdle /\ SnapshotIdle /\ HistogramIdle /\ NotifyIdle

SpecStationary == InitStationary /\ [][StationaryNext]_vars

--------------------------------------------------------------------------
(* Two trackers fed the same event lists and timestamps, one after the other *)

\* A tracker whose ids go on from those handed out by trackers constructed
\* before it.
FirstTrackIdProcessWide(handed_out) == handed_out + 1

\* self.next_track_id = 1 of ObjectTracker.__init__, whatever number of ids
\* the trackers constructed before have handed out.
FirstTrackId(handed_out) == 1

\* What is compared between the two runs after a cycle: the track ids, the
\* number of tracks and the active set.
Snapshot(tracks, returned) ==
    [ids |-> DOMAIN tracks, count |-> Len(IterationOrder(DOMAIN tracks)),
     active |-> Range(returned)]

ReplayCentroids == { <<0, 0>>, <<3, 4>>, <<60, 80>> }

\* tracker.update(motion_events, timestamp) on the events at centroids cs.
Feed(cs, timestamp) ==
    LET motion_events == [i \in 1..Len(cs) |->
                            MotionEvent(timestamp, cs[i], AreaOf(cs[i]))]
        r == TrackerUpdate(tracked_objects, next_track_id, motion_events, timestamp)
    IN  /\ tracked_objects' = r.tracked_objects
        /\ next_track_id' = r.next_track_id
        /\ now' = timestamp
        /\ last' = [events |-> r.events, returned |-> r.returned,
                    match_log |-> r.match_log, created |-> r.created,
                    removed |-> r.removed, before |-> DOMAIN tracked_objects]
        /\ allocated' = allocated \o r.created
        /\ cycles' = cycles + 1
        /\ fed' = fed + Len(cs)

\* The first tracker's update: the call and what the tracker holds after it
\* are recorded.
FirstRunUpdate ==
    /\ replay.run = 1
    /\ cycles < MaxReplayCycles
    /\ \E k \in DOMAIN Deltas, cs \in SeqsUpTo(ReplayCentroids, MaxReplayEvents - fed) :
         /\ \A i, j \in 1..Len(cs) : i # j => cs[i] # cs[j]
         /\ Feed(cs, now + Deltas[k])
         /\ replay' = [replay EXCEPT
                         !.calls = Append(@, [cs |-> cs, timestamp |-> now + Deltas[k]]),
                         !.snapshots = Append(@, Snapshot(tracked_objects', last'.returned))]
    /\ UNCHANGED stationary
    /\ UNCHANGED << filter_vars, natdoc_vars, run_vars, zone_vars, detector_vars, stream_vars, snapshot_vars, histogram_vars,
                    notify_vars >>

\* ObjectTracker(config) a second time, in the same process.
SecondTracker ==
    /\ replay.run = 1
    /\ replay.calls # <<>>
    /\ tracked_objects' = <<>>
    /\ next_track_id' = FirstTrackId(next_track_id - 1)
    /\ now' = 0
    /\ last' = NoCall
    /\ allocated' = <<>>
    /\ cycles' = 0
    /\ fed' = 0
    /\ replay' = [replay EXCEPT !.run = 2]
    /\ UNCHANGED stationary
    /\ UNCHANGED << filter_vars, natdoc_vars, run_vars, zone_vars, detector_vars, stream_vars, snapshot_vars, histogram_vars,
                    notify_vars >>

\* The second tracker's update, with the arguments of the first tracker's
\* call of the same cycle.
SecondRunUpdate ==
    /\ replay.run = 2
    /\ replay.at < Len(replay.calls)
    /\ LET call == replay.calls[replay.at + 1]
       IN  Feed(call.cs, call.timestamp)
    /\ replay' = [replay EXCEPT !.at = @ + 1]
    /\ UNCHANGED stationary
    /\ UNCHANGED << filter_vars, natdoc_vars, run_vars, zone_vars, detector_vars, stream_vars, snapshot_vars, histogram_vars,
                    notify_vars >>

TwoRunsNext == FirstRunUpdate \/ SecondTracker \/ SecondRunUpdate

InitTwoRuns ==
    TrackerInit /\ FilterIdle /\ NatDocIdle /\ RunIdle /\ ZoneIdle /\ DetectorIdle
    /\ StreamIdle /\ SnapshotIdle /\ HistogramIdle /\ NotifyIdle

SpecTwoRuns == InitTwoRuns /\ [][TwoRunsNext]_vars

--------------------------------------------------------------------------
(* The analyzer asked about arbitrary positions.  It keeps nothing from one *)
(* call to the next, so a behaviour makes one call.                         *)

ZoneNames == { "A", "B", Unknown, "" }

\* Centre and radius of a zone: << x, y, radius >>.
ZoneCircles == { << 0, 0, 5 >>, << 0, 0, 10 >>, << 6, 8, 5 >> }

ZoneSet ==
    { [name |-> n, x |-> c[1], y |-> c[2], radius |-> c[3]] :
        n \in ZoneNames, c \in ZoneCircles }

\* ZoneAnalyzer(zones): the rows of the zones table, whose names are UNIQUE.
ZoneInit ==
    /\ zones \in { zs \in SeqsUpTo(ZoneSet, MaxZones) :
                     \A i, j \in 1..Len(zs) : i # j => zs[i].name # zs[j].name }
    /\ zone_call = NoZoneCall

\* analyzer.get_zone_for_position(position)
GetZone ==
    /\ zone_call = NoZoneCall
    /\ \E p \in Centroids :
         zone_call' = [op |-> "get_zone_for_position", positions |-> << p >>,
                       zone |-> GetZoneForPosition(zones, p), counts |-> NoCounts]
    /\ UNCHANGED << zones, tracker_vars, filter_vars, natdoc_vars, run_vars, detector_vars, stream_vars, snapshot_vars, histogram_vars,
                    notify_vars >>

\* analyzer.analyze_activity_by_zone(positions)
Analyze ==
    /\ zone_call = NoZoneCall
    /\ \E ps \in SeqsUpTo(Centroids, MaxPositions) :
         zone_call' = [op |-> "analyze_activity_by_zone", positions |-> ps,
                       zone |-> <<>>, counts |-> AnalyzeActivityByZone(zones, ps)]
    /\ UNCHANGED << zones, tracker_vars, filter_vars, natdoc_vars, run_vars, detector_vars, stream_vars, snapshot_vars, histogram_vars,
                    notify_vars >>

\* analyzer.get_most_visited_zone(positions)
MostVisited ==
    /\ zone_call = NoZoneCall
    /\ \E ps \in SeqsUpTo(Centroids, MaxPositions) :
         zone_call' = [op |-> "get_most_visited_zone", positions |-> ps,
                       zone |-> GetMostVisitedZone(zones, ps),
                       counts |-> AnalyzeActivityByZone(zones, ps)]
    /\ UNCHANGED << zones, tracker_vars, filter_vars, natdoc_vars, run_vars, detector_vars, stream_vars, snapshot_vars, histogram_vars,
                    notify_vars >>

ZoneNext == GetZone \/ Analyze \/ MostVisited

InitZones ==
    TrackerIdle /\ FilterIdle /\ NatDocIdle /\ RunIdle /\ ZoneInit /\ DetectorIdle
    /\ StreamIdle /\ SnapshotIdle /\ HistogramIdle /\ NotifyIdle

SpecZones == InitZones /\ [][ZoneNext]_vars

--------------------------------------------------------------------------
(* The detector given arbitrary frames *)

\* Twice the areas of the contours found: 999.5, 1000, 1000.5, 3999.5, 4000,
\* 8000 and 8000.5 pixels.
ContourAreas2 == { 1999, 2000, 2001, 7999, 8000, 16000, 16001 }

\* Configured motion.min_confidence, in percent.
MinConfidences == { motion_min_confidence, 50 }

DetectorInit ==
    /\ md \in { MotionDetectorInit(motion_min_area, motion_max_area, c) :
                  c \in MinConfidences }
    /\ detect_call = NoDetectCall

\* detector.detect_motion(frame)
DetectFrame ==
    /\ md.frame_count < MaxDetectFrames
    /\ \E frame \in { NullFrame } \cup SeqsUpTo(ContourAreas2, MaxContours) :
         LET r == DetectMotion(md, frame)
         IN  /\ md' = r.detector
             /\ detect_call' = [called |-> TRUE, frame |-> frame,
                                motion_events |-> r.motion_events]
    /\ UNCHANGED << tracker_vars, filter_vars, natdoc_vars, run_vars, zone_vars, stream_vars, snapshot_vars, histogram_vars,
                    notify_vars >>

DetectorNext == DetectFrame

InitDetector ==
    TrackerIdle /\ FilterIdle /\ NatDocIdle /\ RunIdle /\ ZoneIdle /\ DetectorInit
    /\ StreamIdle /\ SnapshotIdle /\ HistogramIdle /\ NotifyIdle

SpecDetector == InitDetector /\ [][DetectorNext]_vars

--------------------------------------------------------------------------
(* A StreamConsumer built from configuration and connected once *)

\* config['stream'].get('max_retries', 5)
MaxRetriesValues == { 0, 1, 2, 3 }

\* config['stream'].get('fallback_path', '')
FallbackPaths == { NoPath, "fallback.mp4" }

StreamInit ==
    /\ \E max_retries \in MaxRetriesValues, retry_forever, fallback_enabled \in BOOLEAN,
          fallback_path \in FallbackPaths :
         sc = StreamConsumerInit(max_retries, retry_forever, fallback_enabled,
                                 fallback_path)
    /\ conn = NoConnect

\* connect() up to the loop: retries = 0 and effective_retry_forever.
Connect ==
    /\ conn.pc = "idle"
    /\ conn' = [conn EXCEPT
                  !.pc = "loop",
                  !.retries = 0,
                  !.effective_retry_forever =
                      EffectiveRetryForever(sc.retry_forever, sc.fallback_enabled)]
    /\ UNCHANGED sc
    /\ UNCHANGED << tracker_vars, filter_vars, natdoc_vars, run_vars, zone_vars,
                    detector_vars, snapshot_vars, histogram_vars,
                    notify_vars >>

\* One pass of the while loop of connect: the try block, and the except
\* branch with its release, its retry test and its sleep when the try block
\* raised an Exception.  A KeyboardInterrupt is no Exception and leaves
\* connect at once.
Attempt ==
    /\ conn.pc = "loop"
    /\ conn.attempts < MaxAttempts
    /\ \E outcome \in AttemptOutcomes :
         LET k == conn.attempts + 1
             retries == conn.retries + 1
             opened == outcome \notin { "open_raises", "interrupt_open" }
             held == IF opened THEN k ELSE sc.capture
             cleaned == ReleaseCapture(held)
             again == ShouldRetry(conn.effective_retry_forever, retries,
                                  sc.max_retries)
             made == [conn EXCEPT !.attempts = k, !.log = Append(@, outcome)]
         IN  \/ /\ outcome = "ok"
                /\ sc' = [sc EXCEPT !.capture = k]
                /\ conn' = [made EXCEPT !.pc = "returned", !.result = "True",
                                        !.read_ok = @ \cup { k }]
             \/ /\ outcome \in { "interrupt_open", "interrupt_read" }
                /\ sc' = [sc EXCEPT !.capture = held]
                /\ conn' = [made EXCEPT !.pc = "interrupted"]
             \/ /\ outcome \in { "open_raises", "read_fails" }
                /\ sc' = [sc EXCEPT !.capture = cleaned.capture]
                /\ conn' = [made EXCEPT
                              !.retries = retries,
                              !.released = @ \o cleaned.released,
                              !.pc = IF again THEN "loop" ELSE "after_loop"]
             \/ /\ outcome = "read_fails_sleep_interrupted"
                /\ again
                /\ sc' = [sc EXCEPT !.capture = cleaned.capture]
                /\ conn' = [made EXCEPT
                              !.retries = retries,
                              !.released = @ \o cleaned.released,
                              !.pc = "interrupted"]
    /\ UNCHANGED << tracker_vars, filter_vars, natdoc_vars, run_vars, zone_vars,
                    detector_vars, snapshot_vars, histogram_vars,
                    notify_vars >>

\* connect() after the loop: the fallback file, or return False.
AfterLoop ==
    /\ conn.pc = "after_loop"
    /\ IF UseFallback(sc)
       THEN \E exists \in BOOLEAN, outcome \in FallbackOutcomes :
              LET r == ConnectFallback(sc.capture, exists, outcome)
              IN  /\ sc' = [sc EXCEPT !.capture = r.capture]
                  /\ conn' = [conn EXCEPT
                                !.pc = "returned",
                                !.result = r.result,
                                !.fallback_calls = @ + 1,
                                !.fallback = << [exists |-> exists,
                                                opened |-> r.opened,
                                                read_ok |-> r.read_ok] >>,
                                !.read_ok = IF r.read_ok
                                            THEN @ \cup { FallbackCapture } ELSE @]
       ELSE /\ conn' = [conn EXCEPT !.pc = "returned", !.result = "False"]
            /\ UNCHANGED sc
    /\ UNCHANGED << tracker_vars, filter_vars, natdoc_vars, run_vars, zone_vars,
                    detector_vars, snapshot_vars, histogram_vars,
                    notify_vars >>

StreamNext == Connect \/ Attempt \/ AfterLoop

InitStream ==
    TrackerIdle /\ FilterIdle /\ NatDocIdle /\ RunIdle /\ ZoneIdle /\ DetectorIdle
    /\ StreamInit /\ SnapshotIdle /\ HistogramIdle /\ NotifyIdle

SpecStream == InitStream /\ [][StreamNext]_vars

--------------------------------------------------------------------------
(* Claims about ObjectTracker *)

\* Ids the latest update call matched an event to.
MatchedIds == Range(last.match_log) \ {NONE}

\* C1: every newly created track receives an id strictly greater than every id
\* allocated before it, so no id is given to two tracks, also after the earlier
\* track was removed by the inactive-timeout cleanup.
C1_IdsStrictlyIncreasing ==
    /\ \A i, j \in 1..Len(allocated) : i < j => allocated[i] < allocated[j]
    /\ \A i \in 1..Len(allocated) : allocated[i] < next_track_id
    /\ \A id \in DOMAIN tracked_objects :
         id \in Range(allocated) /\ tracked_objects[id].track_id = id

\* A track is created in a call made after an earlier track was removed.
C1_Witness ==
    /\ last.created # <<>>
    /\ \E id \in Range(allocated) :
         id \notin DOMAIN tracked_objects /\ id \notin last.before

\* C2: within one update cycle each existing track is matched by at most one
\* of the cycle's events and each event is matched to at most one track.
C2_OneEventPerTrack ==
    /\ Len(last.match_log) = Len(last.events)
    /\ \A id \in MatchedIds :
         Cardinality({ i \in 1..Len(last.match_log) : last.match_log[i] = id }) <= 1

\* C3: a track created at time T and never matched again is in the map after
\* an update call with timestamp t when t - T <= inactive_timeout, and is
\* absent after the first call with t - T > inactive_timeout.
C3_RemovedAfterTimeoutOnly ==
    [][\A id \in DOMAIN tracked_objects :
         LET obj == tracked_objects[id]
         IN  (/\ Len(obj.positions) = 1
              /\ obj.last_seen = obj.first_seen
              /\ id \notin Range(last'.match_log))
             => /\ (id \in DOMAIN tracked_objects')
                     <=> (now' - obj.first_seen <= inactive_timeout)
                /\ id \in DOMAIN tracked_objects' => ~tracked_objects'[id].is_active
       ]_vars

\* A never-matched track exactly inactive_timeout old has survived the call
\* that removed another track.
C3_Witness ==
    /\ last.removed # {}
    /\ \E id \in DOMAIN tracked_objects \cap last.before :
         /\ Len(tracked_objects[id].positions) = 1
         /\ now - tracked_objects[id].first_seen = inactive_timeout

\* C9: update returns exactly the tracks matched or created in that cycle:
\* a surviving unmatched track is inactive and not returned, and every
\* returned track is in the map.
C9_ReturnsMatchedOrCreated ==
    /\ Range(last.returned) = MatchedIds \cup Range(last.created)
    /\ \A i, j \in 1..Len(last.returned) : i # j => last.returned[i] # last.returned[j]
    /\ \A id \in DOMAIN tracked_objects :
         id \notin MatchedIds \cup Range(last.created)
            => ~tracked_objects[id].is_active /\ id \notin Range(last.returned)
    /\ \A id \in Range(last.returned) :
         id \in DOMAIN tracked_objects /\ tracked_objects[id].is_active

\* One track was matched and returned while another survived unmatched.
C9_Witness ==
    /\ MatchedIds # {}
    /\ \E id \in DOMAIN tracked_objects \cap last.before : id \notin MatchedIds

\* C10: after update returns, every event matched to an existing track
\* carries that track's id in its track_id field.
C10_MatchedEventCarriesTrackId ==
    \A i \in 1..Len(last.match_log) :
        last.match_log[i] # NONE => last.events[i].track_id = last.match_log[i]

\* The tracks whose latest centroid is nearest to c of all tracks, below the
\* association distance.
NearestTracks(tracks, c) ==
    { id \in DOMAIN tracks :
        /\ Dist2(c, LastOf(tracks[id].positions))
              < max_tracking_distance * max_tracking_distance
        /\ \A o \in DOMAIN tracks :
              Dist2(c, LastOf(tracks[o].positions))
                >= Dist2(c, LastOf(tracks[id].positions)) }

\* The least of a non-empty set of ids.
MinId(ids) == CHOOSE x \in ids : \A y \in ids : x <= y

\* C11: when an update call brings a single event and two live tracks are
\* equally near to it, nearer than every other track and below the association
\* distance, the track inserted earlier (the lower id) is the one updated and
\* marked active; the other is not updated, is inactive and not returned, and
\* no track is created for the event.
C11_TieGoesToEarlierTrack ==
    [][(cycles' # cycles /\ Len(last'.events) = 1)
         => LET event == last'.events[1]
                tied == NearestTracks(tracked_objects, event.centroid)
            IN  Cardinality(tied) >= 2
                  => LET first == MinId(tied)
                     IN  /\ last'.match_log = << first >>
                         /\ last'.created = <<>>
                         /\ next_track_id' = next_track_id
                         /\ last'.returned = << first >>
                         /\ first \in DOMAIN tracked_objects'
                         /\ tracked_objects'[first].positions
                               = Append(tracked_objects[first].positions, event.centroid)
                         /\ tracked_objects'[first].areas
                               = Append(tracked_objects[first].areas, event.area)
                         /\ tracked_objects'[first].last_seen = now'
                         /\ tracked_objects'[first].is_active
                         /\ \A o \in tied \ {first} :
                               o \in DOMAIN tracked_objects'
                                 => tracked_objects'[o]
                                      = [tracked_objects[o] EXCEPT !.is_active = FALSE]
      ]_vars

\* The single event of the latest call was as near to the track it was matched
\* to as to a later track, which was left as it was.
C11_Witness ==
    /\ Len(last.events) = 1
    /\ \E a, b \in DOMAIN tracked_objects \cap last.before :
         /\ a < b
         /\ last.match_log = << a >>
         /\ Len(tracked_objects[a].positions) >= 2
         /\ ~tracked_objects[b].is_active
         /\ Dist2(last.events[1].centroid,
                  tracked_objects[a].positions[Len(tracked_objects[a].positions) - 1])
              = Dist2(last.events[1].centroid, LastOf(tracked_objects[b].positions))

\* Length of the run of consecutive moves shorter than StationaryPixels that
\* ends at position n.
RECURSIVE SmallMoveRun(_, _)
SmallMoveRun(positions, n) ==
    IF n < 2 THEN 0
    ELSE IF Dist2(positions[n - 1], positions[n]) < StationaryPixels * StationaryPixels
         THEN 1 + SmallMoveRun(positions, n - 1)
         ELSE 0

\* C13: stationary_count of every track equals the length of the current run
\* of consecutive moves below 10 pixels ending at its latest position: each
\* appended position adds one to it when it is less than 10 pixels from the
\* preceding position and resets it to zero otherwise.
C13_StationaryCountIsRunLength ==
    \A id \in DOMAIN tracked_objects :
        tracked_objects[id].stationary_count
          = SmallMoveRun(tracked_objects[id].positions, Len(tracked_objects[id].positions))

\* A track counted one small move and was then reset by a move of exactly
\* StationaryPixels.
C13_Witness ==
    \E id \in DOMAIN tracked_objects :
        LET positions == tracked_objects[id].positions
        IN  /\ Len(positions) = 3
            /\ Dist2(positions[1], positions[2]) < StationaryPixels * StationaryPixels
            /\ Dist2(positions[2], positions[3]) = StationaryPixels * StationaryPixels
            /\ tracked_objects[id].stationary_count = 0

\* C14: last_seen of a track never decreases from one update call to the next
\* while the track exists.
C14_LastSeenNeverDecreases ==
    [][\A id \in DOMAIN tracked_objects \cap DOMAIN tracked_objects' :
         tracked_objects'[id].last_seen >= tracked_objects[id].last_seen
      ]_vars

\* C15: an update call with an empty event list creates no track, leaves
\* next_track_id and every field but is_active of the surviving tracks as they
\* were, removes exactly the tracks last seen more than inactive_timeout before
\* the timestamp, and returns an empty list.
C15_EmptyUpdateOnlyAgesOut ==
    [][(cycles' # cycles /\ last'.events = <<>>)
         => /\ last'.created = <<>>
            /\ next_track_id' = next_track_id
            /\ DOMAIN tracked_objects'
                 = { id \in DOMAIN tracked_objects :
                       ~(now' - tracked_objects[id].last_seen > inactive_timeout) }
            /\ \A id \in DOMAIN tracked_objects' :
                 tracked_objects'[id] = [tracked_objects[id] EXCEPT !.is_active = FALSE]
            /\ last'.returned = <<>>
      ]_vars

\* An empty update removed one track and kept another.
C15_Witness ==
    /\ cycles > 0
    /\ last.events = <<>>
    /\ last.removed # {}
    /\ DOMAIN tracked_objects # {}

\* C12: get_stationary_objects reports exactly the active tracks whose
\* stationary_count has reached stationary_threshold minutes x 60 (300 for the
\* default of 5 minutes).
C12_StationaryAtConfiguredThreshold ==
    [][stationary' # stationary
         => Range(stationary'.returned)
              = { id \in DOMAIN tracked_objects :
                    /\ tracked_objects[id].is_active
                    /\ tracked_objects[id].stationary_count >= stationary_threshold }
      ]_vars

--------------------------------------------------------------------------
(* Claims about DetectionFilter *)

\* Minutes since midnight of the queried time, seconds dropped.
QueryMinutes == query.timestamp \div 60

StartMinutes == df.start_hour * 60 + df.start_minute
EndMinutes == df.end_hour * 60 + df.end_minute

\* C4: for an enabled filter whose window spans midnight (start > end),
\* should_publish_detection(t) is true exactly when the minute of day of t is
\* >= start or < end; with 22:00-06:00 the times 22:00:00, 23:30, 01:00, 02:30
\* and 05:59:59 publish and 06:00:00, 12:00 and 21:59:59 do not.
C4_WrappingWindow ==
    (query.asked /\ df.enabled /\ StartMinutes > EndMinutes) =>
        /\ query.result <=> (QueryMinutes >= StartMinutes \/ QueryMinutes < EndMinutes)
        /\ (StartMinutes = 22 * 60 /\ EndMinutes = 6 * 60) =>
              /\ query.timestamp \in { HMS(22, 0, 0), HMS(23, 30, 0), HMS(1, 0, 0),
                                       HMS(2, 30, 0), HMS(5, 59, 59) } => query.result
              /\ query.timestamp \in { HMS(6, 0, 0), HMS(12, 0, 0), HMS(21, 59, 59) }
                    => ~query.result

\* The 22:00-06:00 filter was asked about 05:59:59 and publishes.
C4_Witness ==
    /\ query.asked /\ df.enabled
    /\ StartMinutes = 22 * 60 /\ EndMinutes = 6 * 60
    /\ query.timestamp = HMS(5, 59, 59)
    /\ query.result

\* C5: for an enabled filter whose window does not span midnight
\* (start <= end), should_publish_detection(t) is true exactly when
\* start <= minute of day of t < end; a window with start = end never publishes.
C5_NonWrappingWindow ==
    (query.asked /\ df.enabled /\ StartMinutes <= EndMinutes) =>
        /\ query.result <=> (StartMinutes <= QueryMinutes /\ QueryMinutes < EndMinutes)
        /\ StartMinutes = EndMinutes => ~query.result

\* A filter with start = end was asked about its start minute.
C5_Witness ==
    /\ query.asked /\ df.enabled
    /\ StartMinutes = EndMinutes
    /\ QueryMinutes = StartMinutes
    /\ ~query.result

\* C16: a filter with detection_publishing.enabled false answers true for
\* every timestamp, whatever start and end are configured.
C16_DisabledAlwaysPublishes ==
    (query.asked /\ ~df.enabled) => query.result

\* A disabled filter was asked about a time outside its configured window.
C16_Witness ==
    /\ query.asked /\ ~df.enabled
    /\ query.result
    /\ ~IsActive(QueryMinutes, StartMinutes, EndMinutes)

\* Positions of the colons of s.
ColonsOf(s) == { i \in 1..Len(s) : s[i] = ":" }

\* The text before the first colon, and the text between the first colon and
\* the second (or the end); <<>> when there is no colon.
HourText(s) ==
    IF ColonsOf(s) = {} THEN s
    ELSE SubSeq(s, 1, (CHOOSE i \in ColonsOf(s) : \A j \in ColonsOf(s) : i <= j) - 1)

MinuteText(s) ==
    LET c1 == CHOOSE i \in ColonsOf(s) : \A j \in ColonsOf(s) : i <= j
        rest == { i \in ColonsOf(s) : i > c1 }
        stop == IF rest = {} THEN Len(s) + 1
                ELSE CHOOSE i \in rest : \A j \in rest : i <= j
    IN  SubSeq(s, c1 + 1, stop - 1)

AllDigits(p) == p # <<>> /\ \A i \in 1..Len(p) : p[i] \in Digits

\* p is digits with blanks around them only.
IsPaddedNumber(p) ==
    \E i, j \in 1..Len(p) :
        /\ i <= j
        /\ \A k \in 1..Len(p) : IF k < i \/ k > j THEN p[k] = " " ELSE p[k] \in Digits

\* The number written by the digits of p.
RECURSIVE NumberIn(_)
NumberIn(p) ==
    IF p = <<>> THEN 0
    ELSE IF p[Len(p)] \in Digits
         THEN 10 * NumberIn(SubSeq(p, 1, Len(p) - 1)) + DigitValue(p[Len(p)])
         ELSE NumberIn(SubSeq(p, 1, Len(p) - 1))

\* What the claim says _parse_time yields: (hour, minute) for 'H' or 'HH:MM'
\* in range, the default for every other string.
ParseAsClaimed(s) ==
    LET form == /\ Cardinality(ColonsOf(s)) <= 1
                /\ AllDigits(HourText(s))
                /\ ColonsOf(s) # {} => AllDigits(MinuteText(s))
        hour == NumberIn(HourText(s))
        minute == IF ColonsOf(s) = {} THEN 0 ELSE NumberIn(MinuteText(s))
    IN  IF form /\ InRange(hour, minute) THEN << hour, minute >> ELSE << 22, 0 >>

\* C6 as claimed: _parse_time yields (hour, minute) for a string 'H' or
\* 'HH:MM' in range and the default (22, 0) for every other string, for the
\* end time as for the start time.
C6_ParseTimeAsClaimed ==
    /\ << df.start_hour, df.start_minute >> = ParseAsClaimed(df.start_time_str)
    /\ << df.end_hour, df.end_minute >> = ParseAsClaimed(df.end_time_str)

\* What _parse_time yields: only the first two colon-separated parts are
\* read, and each may carry surrounding blanks.
ParseAmended(s) ==
    LET ok == /\ IsPaddedNumber(HourText(s))
              /\ ColonsOf(s) # {} => IsPaddedNumber(MinuteText(s))
        hour == NumberIn(HourText(s))
        minute == IF ColonsOf(s) = {} THEN 0 ELSE NumberIn(MinuteText(s))
    IN  IF ok /\ InRange(hour, minute) THEN << hour, minute >> ELSE << 22, 0 >>

\* C6 amended: _parse_time is total and yields (hour, minute) when the first
\* colon-separated part, and the second if there is one, are integers as int()
\* reads them (blanks around the digits allowed) within 0..23 and 0..59; later
\* parts are ignored.  Every other string yields (22, 0), for the end time as
\* for the start time.
C6_ParseTimeTotal ==
    /\ << df.start_hour, df.start_minute >> = ParseAmended(df.start_time_str)
    /\ << df.end_hour, df.end_minute >> = ParseAmended(df.end_time_str)
    /\ InRange(df.start_hour, df.start_minute)
    /\ InRange(df.end_hour, df.end_minute)

\* The end time "2:6:" was read as 02:06.
C6_Witness ==
    /\ df.end_time_str = << "2", ":", "6", ":" >>
    /\ df.end_hour = 2 /\ df.end_minute = 6

--------------------------------------------------------------------------
(* Claims about the driver and the publisher *)

\* C7: the run loop hands to Database.insert_motion_events_batch only events
\* that passed the DetectionFilter: no event detected at a time for which
\* should_publish_detection is false is in a stored batch.
C7_OnlyPublishableEventsStored ==
    \A b \in 1..Len(db) : \A i \in 1..Len(db[b]) :
        ShouldPublishDetection(df, db[b][i].timestamp)

\* C8: publish_events sends no POST and leaves _last_global_event and
\* _track_last_event unchanged whenever the client is disabled, the event list
\* is empty, the frame size is not set or should_publish_detection(current_time)
\* is false.
C8_GatedPublishChangesNothing ==
    [][(/\ pub_calls' = pub_calls + 1
        /\ \/ ~client.enabled
           \/ pub'.events = <<>>
           \/ client.frame_size = NoFrameSize
           \/ ~ShouldPublishDetection(df, pub_clock'))
       => /\ posts' = posts
          /\ client'.last_global_event = client.last_global_event
          /\ client'.track_last_event = client.track_last_event
      ]_vars

\* A client that has published before was called outside the window.
C8_Witness ==
    /\ pub.outcome = "outside_window"
    /\ pub.events # <<>>
    /\ posts # <<>>
    /\ client.last_global_event # NONE

--------------------------------------------------------------------------
(* Claims about ZoneAnalyzer *)

\* Places in the configured list of the zones whose circle, boundary
\* included, contains p.
ZonesContaining(p) ==
    { i \in 1..Len(zones) :
        Dist2(p, << zones[i].x, zones[i].y >>) <= zones[i].radius * zones[i].radius }

\* C17: get_zone_for_position returns the name of the first zone in configured
\* order whose centre is at distance <= radius from the point, a point at
\* distance = radius being inside, and None when no zone contains the point.
C17_FirstContainingZone ==
    zone_call.op = "get_zone_for_position"
      => LET inside == ZonesContaining(zone_call.positions[1])
         IN  IF inside = {} THEN zone_call.zone = <<>>
             ELSE zone_call.zone = << zones[MinId(inside)].name >>

\* The point lies on the boundary of the first zone and inside the second, and
\* the name of the first was returned.
C17_Witness ==
    /\ zone_call.op = "get_zone_for_position"
    /\ Len(zones) = 2
    /\ ZonesContaining(zone_call.positions[1]) = {1, 2}
    /\ Dist2(zone_call.positions[1], << zones[1].x, zones[1].y >>)
         = zones[1].radius * zones[1].radius
    /\ zone_call.zone = << zones[1].name >>

\* The bucket a position belongs to: the name of the first zone containing it,
\* or Unknown.
BucketOf(p) ==
    IF ZonesContaining(p) = {} THEN Unknown ELSE zones[MinId(ZonesContaining(p))].name

\* C18: analyze_activity_by_zone counts every position exactly once: its keys
\* are the configured zone names and 'Unknown', each position is counted under
\* the first zone that contains it or under 'Unknown' when none does, and the
\* counts sum to the number of positions.
C18_EveryPositionInItsBucket ==
    zone_call.op = "analyze_activity_by_zone"
      => LET counts == zone_call.counts
             positions == zone_call.positions
         IN  /\ Range(counts.keys) = { zones[i].name : i \in 1..Len(zones) } \cup {Unknown}
             /\ \A k \in Range(counts.keys) :
                  counts.count[k]
                    = Cardinality({ i \in 1..Len(positions) : BucketOf(positions[i]) = k })

\* Places of the zones that can be reported as most visited.
Candidates == { i \in 1..Len(zones) : zones[i].name # Unknown }

\* The first of the places in `among` whose zone has the highest count.
FirstWithHighestCount(among, count) ==
    MinId({ i \in among :
              \A j \in among : count[zones[j].name] <= count[zones[i].name] })

\* C19 as stated: get_most_visited_zone never returns 'Unknown'; it returns a
\* configured zone with the highest count, the earliest configured one on a
\* tie, and None only when no zone is configured.
C19_MostVisitedAmongAllZones ==
    zone_call.op = "get_most_visited_zone"
      => /\ zone_call.zone # << Unknown >>
         /\ IF zones = <<>> THEN zone_call.zone = <<>>
            ELSE zone_call.zone
                   = << zones[FirstWithHighestCount(1..Len(zones),
                                                    zone_call.counts.count)].name >>

\* C19, amended: get_most_visited_zone never returns 'Unknown'; it returns the
\* earliest configured zone with the highest count of analyze_activity_by_zone
\* among the zones not named 'Unknown', and None exactly when no zone with
\* another name than 'Unknown' is configured.
C19_MostVisitedAmongNamedZones ==
    zone_call.op = "get_most_visited_zone"
      => /\ zone_call.zone # << Unknown >>
         /\ IF Candidates = {} THEN zone_call.zone = <<>>
            ELSE zone_call.zone
                   = << zones[FirstWithHighestCount(Candidates,
                                                    zone_call.counts.count)].name >>

\* Two zones have the same count, 'Unknown' has a higher one, and the zone
\* configured first was returned.
C19_Witness ==
    /\ zone_call.op = "get_most_visited_zone"
    /\ Len(zones) = 2
    /\ Candidates = {1, 2}
    /\ zone_call.counts.count[zones[1].name] = zone_call.counts.count[zones[2].name]
    /\ zone_call.counts.count[Unknown] > zone_call.counts.count[zones[1].name]
    /\ zone_call.zone = << zones[1].name >>

--------------------------------------------------------------------------
(* Claims about MotionDetector *)

\* The contour at place i of the latest frame has min_area <= area <= max_area
\* and a confidence min(1, area / max_area) of at least min_confidence.
Qualifies(i) ==
    LET area2 == detect_call.frame[i]
    IN  /\ 2 * md.min_area <= area2
        /\ area2 <= 2 * md.max_area
        /\ \/ area2 >= 2 * md.max_area
           \/ area2 * 100 >= md.min_confidence * 2 * md.max_area

\* C20: detect_motion emits exactly one MotionEvent, in contour order, for each
\* contour whose area is within [min_area, max_area] and whose confidence is at
\* least min_confidence, and no event for any other contour.
C20_OneEventPerQualifyingContour ==
    detect_call.called
      => LET motion_events == detect_call.motion_events
         IN  IF detect_call.frame = NullFrame THEN motion_events = <<>>
             ELSE /\ { motion_events[j].contour : j \in 1..Len(motion_events) }
                       = { i \in 1..Len(detect_call.frame) : Qualifies(i) }
                  /\ \A j, k \in 1..Len(motion_events) :
                       j < k => motion_events[j].contour < motion_events[k].contour
                  /\ \A j \in 1..Len(motion_events) :
                       motion_events[j].area
                         = detect_call.frame[motion_events[j].contour] \div 2

\* A frame held a contour of exactly max_area, which gave the only event, and
\* a contour within the area range whose confidence was too low.
C20_Witness ==
    /\ detect_call.called
    /\ detect_call.frame # NullFrame
    /\ Len(detect_call.motion_events) = 1
    /\ \E i, j \in 1..Len(detect_call.frame) :
         /\ detect_call.frame[i] = 2 * md.max_area
         /\ detect_call.motion_events[1].contour = i
         /\ 2 * md.min_area <= detect_call.frame[j]
         /\ ~Qualifies(j)

\* The confidence fraction c equals min(1, a2 / (2 * max_area)), a2 being twice
\* an area.
IsClampedRatio(c, a2, max_area) ==
    IF a2 >= 2 * max_area THEN c[1] = c[2]
    ELSE c[1] * 2 * max_area = a2 * c[2]

\* C21 as stated: every MotionEvent emitted by detect_motion has
\* confidence = min(1.0, area / max_area) for the area recorded in that event,
\* and 0 <= confidence <= 1.
C21_ConfidenceOfRecordedArea ==
    detect_call.called
      => \A j \in 1..Len(detect_call.motion_events) :
           LET e == detect_call.motion_events[j]
           IN  /\ IsClampedRatio(e.confidence, 2 * e.area, md.max_area)
               /\ 0 <= e.confidence[1]
               /\ e.confidence[1] <= e.confidence[2]

\* C21 amended: every MotionEvent emitted by detect_motion has
\* confidence = min(1.0, a / max_area) for the area a that cv2.contourArea
\* gave for its contour, the event records int(a), and 0 <= confidence <= 1.
C21_ConfidenceOfContourArea ==
    detect_call.called
      => \A j \in 1..Len(detect_call.motion_events) :
           LET e == detect_call.motion_events[j]
               a2 == detect_call.frame[e.contour]
           IN  /\ IsClampedRatio(e.confidence, a2, md.max_area)
               /\ e.area = a2 \div 2
               /\ 0 <= e.confidence[1]
               /\ e.confidence[1] <= e.confidence[2]
               /\ e.confidence[2] > 0

\* An event was emitted for a contour of a half-integer area and for a
\* contour of exactly max_area.
C21_Witness ==
    /\ detect_call.called
    /\ \E j, k \in 1..Len(detect_call.motion_events) :
         /\ detect_call.frame[detect_call.motion_events[j].contour] % 2 = 1
         /\ detect_call.motion_events[k].confidence = << 1, 1 >>

\* C22: detect_motion called with a null or zero-size frame returns an empty
\* list, does not feed the frame to the background model and does not change
\* motion_count (only frame_count moves), and every valid frame gives after it
\* the events and the counters it would have given without it.
C22_NullFrameIsSkipped ==
    [][ (detect_call'.called /\ detect_call'.frame = NullFrame)
          => /\ detect_call'.motion_events = <<>>
             /\ md'.bg_frames = md.bg_frames
             /\ md'.motion_count = md.motion_count
             /\ md' = [md EXCEPT !.frame_count = @ + 1]
             /\ \A frame \in SeqsUpTo(ContourAreas2, MaxContours) :
                  LET after == DetectMotion(md', frame)
                      without == DetectMotion(md, frame)
                  IN  /\ after.motion_events = without.motion_events
                      /\ after.detector.bg_frames = without.detector.bg_frames
                      /\ after.detector.motion_count
                           = without.detector.motion_count ]_vars

\* A null frame came first and the valid frame after it gave events: two
\* calls were made and the background model has seen one frame.
C22_Witness ==
    /\ detect_call.called
    /\ detect_call.frame # NullFrame
    /\ detect_call.motion_events # <<>>
    /\ md.frame_count = 2
    /\ md.bg_frames = 1
    /\ md.motion_count = Len(detect_call.motion_events)

--------------------------------------------------------------------------
(* Claims about the cooldown of NatureDocumentaryClient *)

\* The events of all POST bodies, in the order they were sent.
RECURSIVE PostedEvents(_)
PostedEvents(bodies) ==
    IF bodies = <<>> THEN <<>> ELSE Head(bodies) \o PostedEvents(Tail(bodies))

\* C30: any two events that one client includes in POST bodies have
\* timestamps at least cooldown_seconds apart, so a publish_events call made
\* less than cooldown_seconds after a published event sends nothing.
C30_PostedEventsCooldownApart ==
    LET sent == PostedEvents(posts)
    IN  \A i, j \in 1..Len(sent) :
          i < j => sent[j].timestamp - sent[i].timestamp >= cooldown

--------------------------------------------------------------------------
(* Claims about get_next_active_time *)

\* C24: for an enabled DetectionFilter, get_next_active_time(t) returns t
\* truncated to the minute when t lies inside the active window, and when t
\* lies outside a window that wraps midnight it returns the start time on the
\* calendar day of t.
C24_NextActiveTime ==
    (next_active.asked /\ df.enabled)
      => LET t == next_active.timestamp
             m == ((t \div 3600) % 24) * 60 + ((t \div 60) % 60)
             s == df.start_hour * 60 + df.start_minute
             e == df.end_hour * 60 + df.end_minute
             inside == IF s > e THEN m >= s \/ m < e ELSE m >= s /\ m < e
         IN  /\ inside => /\ ~next_active.raised
                          /\ next_active.value = (t \div 60) * 60
             /\ (~inside /\ s > e)
                  => /\ ~next_active.raised
                     /\ next_active.value = (t \div 86400) * 86400 + s * 60
                     /\ next_active.value \div 86400 = t \div 86400

\* Asked at 21:59:59 on the last day of a month, outside the window
\* 22:00-06:00, the filter answered 22:00 of that day.
C24_Witness ==
    /\ next_active.asked
    /\ df.enabled
    /\ df.start_hour = 22 /\ df.end_hour = 6
    /\ next_active.timestamp = 86400 + HMS(21, 59, 59)
    /\ next_active.value = 86400 + HMS(22, 0, 0)

--------------------------------------------------------------------------
(* Claims about two runs of the tracker *)

--------------------------------------------------------------------------
(* Claims about StreamConsumer.connect *)

\* No attempt so far had a test read that gave a frame.
EveryAttemptFailed == \A i \in 1..Len(conn.log) : conn.log[i] # "ok"

\* The captures of the attempts that got one and then failed, in order.
FailedCaptures ==
    SelectSeq([i \in 1..Len(conn.log) |-> i],
              LAMBDA i : conn.log[i] \in { "read_fails", "read_fails_sleep_interrupted" })

\* C25: with retry_forever and the fallback disabled and max_retries >= 1, a
\* connect all of whose attempts fail makes exactly max_retries attempts,
\* releases the capture of each failed attempt once, and returns False.
C25_GivesUpAfterMaxRetries ==
    (/\ ~sc.retry_forever /\ ~sc.fallback_enabled /\ sc.max_retries >= 1
     /\ EveryAttemptFailed)
      => /\ conn.attempts <= sc.max_retries
         /\ conn.released = FailedCaptures
         /\ conn.pc = "after_loop" => conn.attempts = sc.max_retries
         /\ conn.pc = "returned"
              => /\ conn.result = "False"
                 /\ conn.attempts = sc.max_retries
                 /\ sc.capture = NONE

\* connect returned False after three attempts whose test read gave no frame
\* and three releases.
C25_Witness ==
    /\ ~sc.retry_forever /\ ~sc.fallback_enabled
    /\ sc.max_retries = 3
    /\ conn.pc = "returned"
    /\ conn.result = "False"
    /\ conn.log = << "read_fails", "read_fails", "read_fails" >>
    /\ conn.released = << 1, 2, 3 >>

\* C26: with retry_forever enabled and the fallback disabled connect goes on
\* attempting the main stream whatever max_retries is, never returns False,
\* returns True at the first attempt whose test read succeeds, the attempts
\* made being as many as the index of that success, and never opens the
\* fallback file.
C26_RetriesUntilSuccess ==
    (sc.retry_forever /\ ~sc.fallback_enabled)
      => /\ conn.result # "False"
         /\ conn.pc # "after_loop"
         /\ conn.fallback_calls = 0
         /\ conn.attempts = Len(conn.log)
         /\ \A i \in 1..Len(conn.log) :
              conn.log[i] = "ok"
                <=> (conn.pc = "returned" /\ conn.result = "True"
                     /\ i = conn.attempts)
         /\ conn.pc = "returned" => conn.log[conn.attempts] = "ok"

\* connect returned True at an attempt beyond max_retries.
C26_Witness ==
    /\ sc.retry_forever /\ ~sc.fallback_enabled
    /\ conn.pc = "returned"
    /\ conn.result = "True"
    /\ conn.attempts > sc.max_retries + 1
    /\ sc.max_retries >= 1

\* C27: when both retry_forever and fallback_enabled are set, connect goes on
\* retrying the main stream beyond max_retries until an attempt succeeds and
\* does not switch to the fallback file.
C27_RetryForeverBeforeFallback ==
    (sc.retry_forever /\ sc.fallback_enabled)
      => /\ conn.fallback_calls = 0
         /\ conn.pc # "after_loop"
         /\ conn.result # "False"


\* C28 as stated: with retry_forever disabled and the fallback enabled with a
\* path, a connect all of whose main-stream attempts fail tries the main
\* stream exactly max_retries times, then the fallback file once, and returns
\* True exactly when the file exists and its first frame can be read.
C28_FallbackAfterMaxRetries ==
    (/\ ~sc.retry_forever /\ UseFallback(sc)
     /\ EveryAttemptFailed /\ conn.pc = "returned")
      => /\ conn.attempts = sc.max_retries
         /\ conn.fallback_calls = 1
         /\ conn.result = "True"
              <=> (conn.fallback[1].exists /\ conn.fallback[1].read_ok)

\* C28 amended: the main stream is tried max_retries times, and once when
\* max_retries is below 1; the rest as stated, the file being opened only
\* when it exists.
C28_FallbackAfterAtLeastOneAttempt ==
    (/\ ~sc.retry_forever /\ UseFallback(sc)
     /\ EveryAttemptFailed /\ conn.pc = "returned")
      => /\ conn.attempts = Max(1, sc.max_retries)
         /\ conn.fallback_calls = 1
         /\ conn.fallback[1].opened => conn.fallback[1].exists
         /\ conn.fallback[1].read_ok => conn.fallback[1].opened
         /\ conn.result = "True"
              <=> (conn.fallback[1].exists /\ conn.fallback[1].read_ok)

\* After two failed attempts on the main stream connect returned True from
\* the fallback file.
C28_Witness ==
    /\ ~sc.retry_forever /\ UseFallback(sc)
    /\ sc.max_retries = 2
    /\ conn.pc = "returned"
    /\ conn.attempts = 2
    /\ EveryAttemptFailed
    /\ conn.result = "True"
    /\ sc.capture = FallbackCapture

\* C29: whenever connect returns False, or is left by a KeyboardInterrupt
\* during the retry loop, self.capture is None; whenever it returns True,
\* self.capture is a capture whose test read succeeded.
C29_NoCaptureHeldAfterFailure ==
    /\ (conn.pc = "returned" /\ conn.result = "False") => sc.capture = NONE
    /\ conn.pc = "interrupted" => sc.capture = NONE
    /\ (conn.pc = "returned" /\ conn.result = "True") => sc.capture \in conn.read_ok

\* C34: for every enabled DetectionFilter and every timestamp, the last day of
\* a month and start equal to end included, get_next_active_time returns
\* without raising a timestamp not earlier than the input truncated to the
\* minute, at which should_publish_detection is true.
C34_NextActiveTimeIsActive ==
    (next_active.asked /\ df.enabled)
      => /\ ~next_active.raised
         /\ next_active.value >= (next_active.timestamp \div 60) * 60
         /\ ShouldPublishDetection(df, next_active.value)

--------------------------------------------------------------------------
(* Claims about matching and track creation within one update call *)

\* The latest centroid of track id when event i of the call just made was
\* looked at: that of the last earlier event of the call matched to the
\* track, or the one the track had before the call.
LatestBefore(id, i) ==
    LET earlier == { j \in 1..(i - 1) : last'.match_log[j] = id }
    IN  IF earlier = {} THEN LastOf(tracked_objects[id].positions)
        ELSE last'.events[CHOOSE j \in earlier : \A k \in earlier : k <= j].centroid

\* The tracks nearer than max_tracking_distance to event i of the call just
\* made.
WithinReach(i) ==
    { id \in DOMAIN tracked_objects :
        Dist2(last'.events[i].centroid, LatestBefore(id, i))
          < max_tracking_distance * max_tracking_distance }

\* C35: an event is matched to a track whose latest centroid is nearest to
\* it among the tracks at distance strictly less than max_tracking_distance;
\* an event at distance >= max_tracking_distance from every live track is not
\* matched and a new track is created at its centroid.
C35_MatchedToNearestWithinReach ==
    [][cycles' = cycles + 1
         => \A i \in 1..Len(last'.events) :
              LET c == last'.events[i].centroid
                  m == last'.match_log[i]
              IN  IF WithinReach(i) = {}
                  THEN /\ m = NONE
                       /\ \E id \in Range(last'.created) :
                            tracked_objects'[id].positions = << c >>
                  ELSE /\ m \in WithinReach(i)
                       /\ \A o \in WithinReach(i) :
                            Dist2(c, LatestBefore(m, i)) <= Dist2(c, LatestBefore(o, i))
      ]_vars

\* The single event of the latest call was matched to a track while another
\* live track was exactly max_tracking_distance away from it.
C35_Witness ==
    /\ Len(last.events) = 1
    /\ \E a, b \in DOMAIN tracked_objects \cap last.before :
         /\ last.match_log = << b >>
         /\ Len(tracked_objects[b].positions) >= 2
         /\ Dist2(last.events[1].centroid, LastOf(tracked_objects[a].positions))
              = max_tracking_distance * max_tracking_distance

\* The places in the event list of the call just made of the events that
\* were matched to no track, in input order.
UnmatchedPlaces ==
    SelectSeq([i \in 1..Len(last'.events) |-> i],
              LAMBDA i : last'.match_log[i] = NONE)

\* C36: tracks created during an update call are no candidates for matching
\* in that call: every match is to a track that existed before the call, one
\* track is created per unmatched event, with consecutive ids in event input
\* order, and each new track is active, has one position and one area, has
\* first_seen = last_seen = the timestamp of the call and stationary_count 0.
C36_OneNewTrackPerUnmatchedEvent ==
    [][cycles' = cycles + 1
         => /\ \A i \in 1..Len(last'.events) :
                 last'.match_log[i] # NONE
                   => last'.match_log[i] \in DOMAIN tracked_objects
            /\ Len(last'.created) = Len(UnmatchedPlaces)
            /\ next_track_id' = next_track_id + Len(UnmatchedPlaces)
            /\ \A k \in 1..Len(UnmatchedPlaces) :
                 LET id == next_track_id + k - 1
                     event == last'.events[UnmatchedPlaces[k]]
                 IN  /\ last'.created[k] = id
                     /\ id \notin DOMAIN tracked_objects
                     /\ id \in DOMAIN tracked_objects'
                     /\ id \in Range(last'.returned)
                     /\ tracked_objects'[id]
                          = [track_id |-> id, first_seen |-> now', last_seen |-> now',
                             positions |-> << event.centroid >>,
                             areas |-> << event.area >>,
                             is_active |-> TRUE, stationary_count |-> 0]
      ]_vars

\* Two events 5 pixels apart came in one call with no track near them, and
\* each got a track of its own.
C36_Witness ==
    /\ Len(last.events) = 2
    /\ Dist2(last.events[1].centroid, last.events[2].centroid)
         < max_tracking_distance * max_tracking_distance
    /\ last.match_log = << NONE, NONE >>
    /\ Len(last.created) = 2
    /\ last.created[2] = last.created[1] + 1
    /\ { last.created[1], last.created[2] } \subseteq Range(last.returned)

--------------------------------------------------------------------------
(* Claims about the run loop *)

\* C37: after the run loop has processed an in-schedule frame at time t the
\* tracker holds no track last seen more than inactive_timeout before t and
\* no track is flagged active unless it was matched or created on that frame,
\* also when no motion was detected in the frame.
C37_TracksAgedOnEveryFrame ==
    [][(/\ run_pc = "loop" /\ run_pc' = "loop"
        /\ frame_count' = frame_count + 1
        /\ IsWithinSchedule(clock'))
         => \A id \in DOMAIN tracked_objects' :
              /\ clock' - tracked_objects'[id].last_seen <= inactive_timeout
              /\ tracked_objects'[id].is_active
                   => tracked_objects'[id].last_seen = clock'
      ]_vars

\* The events of all batches given to the database, in order.
RECURSIVE StoredEvents(_)
StoredEvents(batches) ==
    IF batches = <<>> THEN <<>> ELSE Head(batches) \o StoredEvents(Tail(batches))

--------------------------------------------------------------------------
(* A SnapshotManager asked to save at successive times *)

\* config['snapshots'].get('save_interval', 60)
SaveIntervals == { 1, 60 }

\* config['snapshots'].get('max_snapshots', 100)
MaxSnapshotsValues == { 1, 2 }

\* Seconds between two save_snapshot calls; the last is a day and ten seconds.
SaveGaps == { 0, 1, 60, 86410 }

\* static/snapshots as an earlier session left it
OldDirs == { EmptyDir, WriteSnapshot(EmptyDir, SnapshotName(0), 0, 1) }

SnapshotInit ==
    /\ \E save_interval \in SaveIntervals, max_snapshots \in MaxSnapshotsValues :
         sm = SnapshotManagerInit(save_interval, max_snapshots)
    /\ snapshot_dir \in OldDirs
    /\ save_call = [NoSave EXCEPT !.now = 1000]

\* One save_snapshot call
SaveSnapshotCall ==
    /\ save_call.calls < MaxSaves
    /\ \E gap \in SaveGaps, motion_events \in { <<>>, << 1 >> } :
         LET t == save_call.now + gap
             r == SaveSnapshot(sm, snapshot_dir, t, motion_events)
         IN  /\ sm' = r.manager
             /\ snapshot_dir' = r.dir
             /\ save_call' = [called |-> TRUE, now |-> t,
                              motion_events |-> motion_events,
                              last_before |-> sm.last_snapshot_time,
                              dir_before |-> snapshot_dir,
                              returned |-> r.returned,
                              calls |-> save_call.calls + 1]
    /\ UNCHANGED << tracker_vars, filter_vars, natdoc_vars, run_vars, zone_vars,
                    detector_vars, stream_vars, histogram_vars, notify_vars >>

SnapshotNext == SaveSnapshotCall

InitSnapshot ==
    TrackerIdle /\ FilterIdle /\ NatDocIdle /\ RunIdle /\ ZoneIdle /\ DetectorIdle
    /\ StreamIdle /\ SnapshotInit /\ HistogramIdle /\ NotifyIdle

SpecSnapshot == InitSnapshot /\ [][SnapshotNext]_vars

--------------------------------------------------------------------------
(* A motion_events table filled and asked for histograms *)

\* Timestamps of stored events, in seconds
EventTimes == { 0, 59, 60, 119, 3600 }

StartDates == { 0, 60 }

EndDates == { 0, 60, 119, 120, 3600, 7200 }

BucketMinutesValues == { -1, 0, 1, 2 }

\* Database.insert_motion_event: one more row
InsertMotionEvent ==
    /\ Len(motion_events_table) < MaxStoredEvents
    /\ \E ts \in EventTimes : motion_events_table' = Append(motion_events_table, ts)
    /\ UNCHANGED hist
    /\ UNCHANGED << tracker_vars, filter_vars, natdoc_vars, run_vars, zone_vars,
                    detector_vars, stream_vars, snapshot_vars, notify_vars >>

\* One get_activity_histogram call
ActivityHistogram ==
    /\ \E start_date \in StartDates, end_date \in EndDates,
          bucket_minutes \in BucketMinutesValues :
         hist' = [asked |-> TRUE, start_date |-> start_date, end_date |-> end_date,
                  bucket_minutes |-> bucket_minutes,
                  rows |-> motion_events_table,
                  buckets |-> GetActivityHistogram(motion_events_table, start_date,
                                                   end_date, bucket_minutes)]
    /\ UNCHANGED motion_events_table
    /\ UNCHANGED << tracker_vars, filter_vars, natdoc_vars, run_vars, zone_vars,
                    detector_vars, stream_vars, snapshot_vars, notify_vars >>

HistogramNext == InsertMotionEvent \/ ActivityHistogram

InitHistogram ==
    TrackerIdle /\ FilterIdle /\ NatDocIdle /\ RunIdle /\ ZoneIdle /\ DetectorIdle
    /\ StreamIdle /\ SnapshotIdle /\ HistogramIdle /\ NotifyIdle

SpecHistogram == InitHistogram /\ [][HistogramNext]_vars

--------------------------------------------------------------------------
(* A NotificationTrigger called at successive times *)

\* rate_limit_seconds
RateLimits == { 2, 300 }

\* Seconds between the end of one call and the next call
NotifyGaps == { 0, 1, 2, 300 }

\* Seconds between the rate-limit test and datetime.now() after the answer
Latencies == { 0, 1 }

\* Answers of /api/notifications/webhook; NONE: requests.post raised
WebhookAnswers == { 200, 204, 404, 500, NONE }

\* Answers of /api/notification/messages/{message_id}
MessageAnswers == { 201, 500, NONE }

NotifyInit ==
    /\ \E rate_limit_seconds \in RateLimits :
         nt = NotificationTriggerInit(rate_limit_seconds)
    /\ notify_call = NoNotify
    /\ delivered = <<>>

\* One send_gecko_detection_notification call
SendNotification ==
    /\ notify_call.calls < MaxNotifyCalls
    /\ \E gap \in NotifyGaps, latency \in Latencies,
          webhook \in WebhookAnswers, message \in MessageAnswers :
         LET t == notify_call.answered + gap
             answered == t + latency
             r == SendGeckoDetectionNotification(nt, t, webhook, message, answered)
         IN  /\ nt' = r.trigger
             /\ notify_call' = [called |-> TRUE, now |-> t, answered |-> answered,
                                last_before |-> nt.last_notification_time,
                                returned |-> r.returned, requests |-> r.requests,
                                calls |-> notify_call.calls + 1]
             /\ delivered' = IF r.returned
                             THEN Append(delivered, [sent_at |-> t,
                                                     answered_at |-> answered])
                             ELSE delivered
    /\ UNCHANGED << tracker_vars, filter_vars, natdoc_vars, run_vars, zone_vars,
                    detector_vars, stream_vars, snapshot_vars, histogram_vars >>

NotifyNext == SendNotification

InitNotify ==
    TrackerIdle /\ FilterIdle /\ NatDocIdle /\ RunIdle /\ ZoneIdle /\ DetectorIdle
    /\ StreamIdle /\ SnapshotIdle /\ HistogramIdle /\ NotifyInit

SpecNotify == InitNotify /\ [][NotifyNext]_vars

--------------------------------------------------------------------------
(* Claims about SnapshotManager *)

\* C31: save_snapshot saves exactly when the motion-event list is non-empty
\* and either nothing was saved before or at least save_interval seconds
\* have passed since the last saved snapshot, however long that gap is;
\* otherwise it returns None, writes nothing and leaves last_snapshot_time
\* as it was.
C31_SavesExactlyWhenDue ==
    save_call.called =>
      LET due == /\ save_call.motion_events # <<>>
                 /\ \/ save_call.last_before = NONE
                    \/ save_call.now - save_call.last_before >= sm.save_interval
      IN  IF due
          THEN /\ save_call.returned = << SnapshotName(save_call.now) >>
               /\ sm.last_snapshot_time = save_call.now
               /\ \E f \in snapshot_dir.jpg : f.name = SnapshotName(save_call.now)
          ELSE /\ save_call.returned = <<>>
               /\ snapshot_dir = save_call.dir_before
               /\ sm.last_snapshot_time = save_call.last_before

\* The images save_snapshot took away in its latest call.
RemovedSnapshots == save_call.dir_before.jpg \ snapshot_dir.jpg

--------------------------------------------------------------------------
(* Claims about Database.get_activity_histogram *)

\* The rows of the latest call with start <= timestamp < end.
RowsInRange ==
    { k \in 1..Len(hist.rows) :
        hist.rows[k] >= hist.start_date /\ hist.rows[k] < hist.end_date }

\* The counts of the buckets added up: one pair for each unit of each count.
SumOfCounts(buckets) ==
    Cardinality({ p \in (1..Len(buckets)) \X (1..Len(hist.rows)) :
                    p[2] <= buckets[p[1]].count })

\* C33: get_activity_histogram(start, end, m) returns
\* floor((end - start) / m) + 1 consecutive buckets of m minutes beginning at
\* start, at least one, with m <= 0 taken as 60; every stored event with
\* start <= timestamp < end is counted in the bucket with index
\* floor((timestamp - start) / m) and in no other, so the counts add up to
\* the number of events in the range.
C33_HistogramBuckets ==
    hist.asked =>
      LET m == IF hist.bucket_minutes <= 0 THEN 60 ELSE hist.bucket_minutes
          n == Max((hist.end_date - hist.start_date) \div (m * 60) + 1, 1)
      IN  /\ Len(hist.buckets) = n
          /\ \A i \in 1..n :
               /\ hist.buckets[i].start = hist.start_date + (i - 1) * m * 60
               /\ hist.buckets[i].end = hist.start_date + i * m * 60
               /\ hist.buckets[i].count =
                    Cardinality({ k \in RowsInRange :
                        (hist.rows[k] - hist.start_date) \div (m * 60) = i - 1 })
          /\ \A k \in RowsInRange :
               (hist.rows[k] - hist.start_date) \div (m * 60) \in 0..(n - 1)
          /\ SumOfCounts(hist.buckets) = Cardinality(RowsInRange)

\* A range of 119 seconds in buckets of one minute: two buckets, the second
\* a partial one, with one event in each.
C33_Witness ==
    /\ hist.asked
    /\ hist.bucket_minutes = 1
    /\ hist.end_date - hist.start_date = 119
    /\ Len(hist.buckets) = 2
    /\ hist.buckets[1].count = 1
    /\ hist.buckets[2].count = 1

--------------------------------------------------------------------------
(* Claims about NotificationTrigger *)

\* C40: between two notifications one trigger sent successfully at least
\* rate_limit_seconds pass; a call made less than rate_limit_seconds after
\* the last successful send returns False and issues no request; and
\* last_notification_time changes only in a call whose last request was
\* answered with 200, 201 or 204.
C40_RateLimitBetweenSends ==
    /\ [](\A i, j \in 1..Len(delivered) :
            i < j => delivered[j].sent_at - delivered[i].answered_at
                       >= nt.rate_limit_seconds)
    /\ []((/\ notify_call.called
           /\ notify_call.last_before # NONE
           /\ notify_call.now - notify_call.last_before < nt.rate_limit_seconds)
            => /\ notify_call.returned = FALSE
               /\ notify_call.requests = <<>>)
    /\ [][nt'.last_notification_time # nt.last_notification_time
            => /\ notify_call'.requests # <<>>
               /\ LastOf(notify_call'.requests).status_code \in { 200, 201, 204 }
               /\ nt'.last_notification_time = notify_call'.answered
               /\ notify_call'.returned = TRUE
         ]_vars

\* Two notifications were delivered, the second through the message
\* endpoint, and a call right after it was turned away.
C40_Witness ==
    /\ Len(delivered) = 2
    /\ notify_call.called
    /\ notify_call.returned = FALSE
    /\ notify_call.requests = <<>>
    /\ notify_call.last_before = delivered[2].answered_at
    /\ delivered[2].answered_at > delivered[2].sent_at

====
